---- MODULE Spec2Model ----
(***************************************************************************)
(* Nexus-Lite consumer: the CircuitBreaker state machine and the           *)
(* RetryWithBackoff executor of the retry/circuit-breaker source file.     *)
(*                                                                         *)
(* Every atomic.Load/Add/Store/CompareAndSwap of the Go code is one step   *)
(* of the worker that runs it, so two workers interleave between any two   *)
(* atomic operations of one method, as goroutines do.                      *)
(***************************************************************************)
EXTENDS Integers, Sequences, FiniteSets, TLC

\* ------------------------------------------------------------------ bounds

\* maxFailures of the modelled breaker (NewCircuitBreaker's parameter).
MaxFailures == 2
\* halfOpenSuccess of the modelled breaker.
HalfOpenSuccess == 2
\* resetTimeout of the modelled breaker, in clock ticks.
ResetTimeout == 1
\* The clock stops after this many ticks.
MaxTicks == 2
\* recordFailure is not started once the failure counter has reached this.
MaxFailCount == 3
\* RetryConfig.MaxAttempts is drawn from 1..MaxAttemptsBound.
MaxAttemptsBound == 3
\* reader.ReadMessage returns at most this many times with a message or with an
\* error other than a timeout.
NumMessages == 2
\* Capacity of workChan (1000 in main, scaled down).
WorkChanCap == 1
\* Capacity of the results channel (1000 in main, scaled down).
ResultsCap == 1
\* The tickers' firings and the ticks of work after the signal are counted up to
\* this number.
MaxTaskTicks == 1
\* Capacity of client.send (256 in handleWebSocket, scaled down).
SendCap == 1
\* Capacity of h.broadcast (256 in NewWebSocketHub, scaled down).
BroadcastCap == 1
\* BroadcastMessage is called at most this many times.
MaxBroadcasts == 2

\* --------------------------------------------------------------- constants

StateClosed == "closed"
StateHalfOpen == "half-open"
StateOpen == "open"

InitialDelay == 50
MaxDelay == 500
Multiplier == 2

\* The goroutines that share the breaker, and the single caller of the
\* sequential specification.
Workers == {"w1", "w2"}
SeqWorkers == {"w1"}

\* What fn may return: nil or one of two distinct errors.
Errs == {"errA", "errB"}

\* The values RetryConfig.InitialDelay is drawn from, in milliseconds: the default,
\* one whose product with Multiplier exceeds MaxDelay, and one that itself
\* exceeds MaxDelay.
Delays == {InitialDelay, MaxDelay \div 2 + InitialDelay, MaxDelay + 2 * InitialDelay}

\* The periodic background tasks main starts: monitorDependencies, logMetrics,
\* broadcastMetricsPeriodically and broadcastBalancesPeriodically.
Tasks == {"monitor", "logger", "metricsCast", "balanceCast"}

\* The connections the WebSocket server may accept.
Clients == {"c1", "c2"}

\* The goroutines of the consumer's pipeline: the pool workers (numWorkers of
\* them in main, scaled down), the Kafka reader, main and the goroutine that
\* drains the results channel.
PoolWorkers == {"p1", "p2"}
Procs == PoolWorkers \cup {"reader", "main", "drain"}

\* The messages Kafka delivers, numbered in the order they are read.
Ids == 1..NumMessages

\* Payloads, as the Document that xml.Unmarshal makes of them: a well-formed
\* pacs.008 message, one that parses but breaks two rules, and bytes that do not
\* parse. The reader of the pipeline draws from the first and the last.
GoodTx ==
    [DbtrBIC |-> "MBBEMYKL", CdtrBIC |-> "DBSSSGSG", InstrId |-> "INSTR1", Ccy |-> "MYR",
     Value |-> "100.50", IntrBkSttlmDt |-> "2024-01-01", ChrgBr |-> "SHAR"]
GoodDoc ==
    [parses |-> TRUE, MsgId |-> "MSG1", NbOfTxs |-> 1, SttlmMtd |-> "CLRG",
     CdtTrfTxInf |-> <<GoodTx>>]
RuleBreakingDoc ==
    [GoodDoc EXCEPT !.MsgId = "", !.CdtTrfTxInf = <<[GoodTx EXCEPT !.ChrgBr = "XXXX"]>>]
GarbageDoc ==
    [parses |-> FALSE, MsgId |-> "", NbOfTxs |-> 0, SttlmMtd |-> "", CdtTrfTxInf |-> <<>>]
Payloads == {GoodDoc, GarbageDoc}

\* The strings strconv.ParseFloat accepts, among those the payloads carry.
FloatLiterals == {"100.50"}

\* The error codes with which the liquidity service denies a transfer.
DenialCodes == {"AM04", "AC04"}

NoItem == [id |-> 0, doc |-> GarbageDoc]
NoResult == [id |-> 0, Valid |-> FALSE, ErrorCode |-> "", MsgId |-> ""]
NoAudit == [validated |-> 0, valid |-> 0, invalid |-> 0, denial |-> ""]

VARIABLES
    state,              \* cb.state
    failures,           \* cb.failures
    lastFailureTime,    \* cb.lastFailureTime
    halfOpenSuccesses,  \* cb.halfOpenSuccesses
    now,                \* time.Now()
    cancelled,          \* ctx.Done() is closed
    pc,                 \* each worker's position
    caller,             \* who called the breaker method the worker is in
    st,                 \* local `state` of the running breaker method
    fl,                 \* local `failures` of recordFailure
    lf,                 \* local `lastFailure` of canExecute
    sc,                 \* local `successes` of recordSuccess
    ret,                \* canExecute's return value
    config,             \* RetryWithBackoff's config
    attempt,            \* RetryWithBackoff's loop variable
    delay,              \* RetryWithBackoff's delay
    lastErr,            \* RetryWithBackoff's lastErr / Call's err
    result,             \* what the last Call / RetryWithBackoff returned
    trace,              \* history: what the running Call / RetryWithBackoff did
    sequential,         \* history: the breaker has a single caller, and consec is kept
    consec,             \* history: recordFailure calls since the last recordSuccess call
    winners,            \* history: who flipped Open->HalfOpen since the breaker last opened
    probe,              \* history: the recordSuccess calls of the current HalfOpen window
    liquidityClient,    \* the consumer's global liquidityClient: "nil" or "live"
    fetched,            \* the messages reader.ReadMessage has returned, in order
    workChan,           \* main's workChan: the buffered WorkItems
    workChanClosed,     \* close(workChan) has run
    results,            \* main's results channel: the buffered ValidationResults
    resultsClosed,      \* close(results) has run
    ppc,                \* position of the reader, each pool worker, main and the drain goroutine
    msg,                \* readMessages' msg
    work,               \* processMessages' work, per pool worker
    vresult,            \* processMessages' result, per pool worker
    metrics,            \* the global metrics counters
    crashed,            \* the process has panicked
    taken,              \* history: how often each message was received from workChan
    liq,                \* history: what checkLiquidity did for each message
    offered,            \* history: how often each message's result was handed to BroadcastTransaction
    delivered,          \* history: the results sent on the results channel, per message
    audit,              \* history: per message, the runs of validateTransaction, the counter
                        \* increments and the code of the service's denial
    tpc,                \* position of each periodic background task
    tickC,              \* each task's ticker.C holds a tick
    fired,              \* how often each task's ticker has fired
    late,               \* history: ticks of work each task began after the shutdown signal
    clients,            \* h.clients
    send,               \* client.send of each connection: the buffered messages
    sendClosed,         \* close(client.send) has run
    broadcast,          \* h.broadcast: the buffered messages
    hpc,                \* where WebSocketHub.Run stands
    cpc,                \* where each connection's handler (handleWebSocket, readPump) stands
    wpc,                \* where each connection's writePump stands
    nextMsg,            \* the number of the next message handed to BroadcastMessage
    round,              \* history: the broadcast message being processed, or the last one
    got                 \* history: the messages the hub put into each client.send, in order

cbVars == <<state, failures, lastFailureTime, halfOpenSuccesses>>
locVars == <<st, fl, lf, sc, ret>>
rbVars == <<config, attempt, delay, lastErr, result, trace>>
histVars == <<sequential, consec, winners, probe>>
chanVars == <<workChan, workChanClosed, results, resultsClosed>>
pipeHist == <<taken, liq, offered, delivered, audit>>
pipeVars == <<liquidityClient, fetched, workChan, workChanClosed, results, resultsClosed,
              ppc, msg, work, vresult, metrics, crashed, taken, liq, offered, delivered,
              audit>>
taskVars == <<tpc, tickC, fired, late>>
hubVars == <<clients, send, sendClosed, broadcast, hpc, cpc, wpc, nextMsg, round, got>>
auxVars == <<taskVars, hubVars>>
vars == <<state, failures, lastFailureTime, halfOpenSuccesses, now, cancelled,
          pc, caller, st, fl, lf, sc, ret, config, attempt, delay, lastErr,
          result, trace, sequential, consec, winners, probe,
          liquidityClient, fetched, workChan, workChanClosed, results, resultsClosed,
          ppc, msg, work, vresult, metrics, crashed, taken, liq, offered, delivered,
          audit, tpc, tickC, fired, late, clients, send, sendClosed, broadcast, hpc, cpc,
          wpc, nextMsg, round, got>>

\* The clock reads well past resetTimeout when the breaker is built with
\* lastFailureTime = 0 (the Unix epoch).
StartTime == ResetTimeout + 1

NoConfig == [MaxAttempts |-> 0, InitialDelay |-> 0, CircuitBreaker |-> FALSE]

\* The HalfOpen window that the last Open->HalfOpen change began: the callers
\* inside a recordSuccess that read the state as HalfOpen in this window and have
\* not added to the counter yet, and how many such calls have added to it.
NoProbe == [fresh |-> {}, counted |-> 0]

\* The breaker and its callers before any call.
BreakerInit(seq) ==
    /\ sequential = seq
    /\ state = StateClosed
    /\ failures = 0
    /\ lastFailureTime = 0
    /\ halfOpenSuccesses = 0
    /\ now = StartTime
    /\ cancelled = FALSE
    /\ pc = [w \in Workers |-> "idle"]
    /\ caller = [w \in Workers |-> "none"]
    /\ st = [w \in Workers |-> "none"]
    /\ fl = [w \in Workers |-> 0]
    /\ lf = [w \in Workers |-> 0]
    /\ sc = [w \in Workers |-> 0]
    /\ ret = [w \in Workers |-> "none"]
    /\ config = [w \in Workers |-> NoConfig]
    /\ attempt = [w \in Workers |-> 0]
    /\ delay = [w \in Workers |-> 0]
    /\ lastErr = [w \in Workers |-> "nil"]
    /\ result = [w \in Workers |-> <<"none">>]
    /\ trace = [w \in Workers |-> <<>>]
    /\ consec = 0
    /\ winners = {}
    /\ probe = NoProbe

\* The pipeline's channels, counters and goroutines once main has started them
\* (lc is the liquidity client NewLiquidityClient left, at is where every
\* goroutine stands).
PipeInit(lc, at) ==
    /\ liquidityClient = lc
    /\ fetched = <<>>
    /\ workChan = <<>>
    /\ workChanClosed = FALSE
    /\ results = <<>>
    /\ resultsClosed = FALSE
    /\ ppc = at
    /\ msg = NoItem
    /\ work = [p \in PoolWorkers |-> NoItem]
    /\ vresult = [p \in PoolWorkers |-> NoResult]
    /\ metrics = [MessagesConsumed |-> 0, MessagesValid |-> 0, MessagesInvalid |-> 0,
                  Errors |-> 0]
    /\ crashed = FALSE
    /\ taken = [i \in Ids |-> 0]
    /\ liq = [i \in Ids |-> "none"]
    /\ offered = [i \in Ids |-> 0]
    /\ delivered = [i \in Ids |-> <<>>]
    /\ audit = [i \in Ids |-> NoAudit]

\* A round of the hub's broadcast loop: the message, the clients in the set when
\* the loop began, and those that got the message or were evicted so far.
NoRound == [msg |-> 0, members |-> {}, appended |-> {}, evicted |-> {}]

\* The periodic tasks once main has started them (at is where each stands).
TaskInit(at) ==
    /\ tpc = at
    /\ tickC = [t \in Tasks |-> FALSE]
    /\ fired = [t \in Tasks |-> 0]
    /\ late = [t \in Tasks |-> 0]

\* NewWebSocketHub, with Run at its select (or not started: h is "off") and no
\* connection yet.
HubInit(h) ==
    /\ clients = {}
    /\ send = [c \in Clients |-> <<>>]
    /\ sendClosed = [c \in Clients |-> FALSE]
    /\ broadcast = <<>>
    /\ hpc = [at |-> h, msg |-> 0, todo |-> {}]
    /\ cpc = [c \in Clients |-> "c_new"]
    /\ wpc = [c \in Clients |-> "off"]
    /\ nextMsg = 1
    /\ round = NoRound
    /\ got = [c \in Clients |-> <<>>]

\* The periodic tasks and the hub are not running.
AuxOff == TaskInit([t \in Tasks |-> "off"]) /\ HubInit("off")

\* The breaker on its own: the pipeline's goroutines are not running.
InitWith(seq) == BreakerInit(seq) /\ PipeInit("nil", [p \in Procs |-> "off"]) /\ AuxOff

\* NewCircuitBreaker, shared by several goroutines.
Init == InitWith(FALSE)

\* NewCircuitBreaker, used by one caller.
InitSeq == InitWith(TRUE)

\* ----------------------------------------------------------------- helpers

Goto(w, l) == pc' = [pc EXCEPT ![w] = l]

\* The locals of a breaker method die when it returns to its caller.
ClearLocals(w) ==
    /\ st' = [st EXCEPT ![w] = "none"]
    /\ fl' = [fl EXCEPT ![w] = 0]
    /\ lf' = [lf EXCEPT ![w] = 0]
    /\ sc' = [sc EXCEPT ![w] = 0]
    /\ ret' = [ret EXCEPT ![w] = "none"]

\* A new call by the client: what the previous Call / RetryWithBackoff left behind
\* (its arguments, its result and its history) is gone.
Forget(w) ==
    /\ config' = [config EXCEPT ![w] = NoConfig]
    /\ attempt' = [attempt EXCEPT ![w] = 0]
    /\ delay' = [delay EXCEPT ![w] = 0]
    /\ lastErr' = [lastErr EXCEPT ![w] = "nil"]
    /\ result' = [result EXCEPT ![w] = <<"none">>]
    /\ trace' = [trace EXCEPT ![w] = <<>>]

\* atomic.CompareAndSwapInt32(&cb.state, old, new) succeeds iff the state is old.
CompareAndSwapAlways(cur, old) == TRUE
CompareAndSwap(cur, old) == cur = old

\* time.Since(time.Unix(0, lastFailure)) > cb.resetTimeout
TimeoutElapsedAtBoundary(t, last) == t - last >= ResetTimeout
TimeoutElapsed(t, last) == t - last > ResetTimeout

\* failures >= cb.maxFailures
ShouldOpenLate(f) == f > MaxFailures
ShouldOpen(f) == f >= MaxFailures

\* successes >= cb.halfOpenSuccess
ShouldCloseEarly(s) == s >= HalfOpenSuccess - 1
ShouldClose(s) == s >= HalfOpenSuccess

\* ------------------------------------------------------------------- clock

\* The reset timeout has not yet run out for the last recorded failure. Once it has,
\* a later clock reading changes no outcome of canExecute until the next failure
\* is recorded, so the clock is read as standing still.
TimerRunning == now - lastFailureTime <= ResetTimeout

Tick ==
    /\ now < StartTime + MaxTicks
    /\ TimerRunning
    /\ now' = now + 1
    /\ UNCHANGED <<cbVars, cancelled, pc, caller, locVars, rbVars, histVars, pipeVars, auxVars>>

\* The caller's context is cancelled (the shutdown signal).
Cancel ==
    /\ ~cancelled
    /\ cancelled' = TRUE
    /\ UNCHANGED <<cbVars, now, pc, caller, locVars, rbVars, histVars, pipeVars, auxVars>>

\* -------------------------------------------------- direct calls (a client
\* of the package calling the breaker's methods one by one)

CallCanExecute(w) ==
    /\ pc[w] = "idle"
    /\ caller' = [caller EXCEPT ![w] = "direct"]
    /\ Goto(w, "ce_load")
    /\ Forget(w)
    /\ UNCHANGED <<cbVars, now, cancelled, locVars, histVars, pipeVars, auxVars>>

CallRecordFailure(w) ==
    /\ pc[w] = "idle"
    /\ failures < MaxFailCount
    /\ caller' = [caller EXCEPT ![w] = "direct"]
    /\ Goto(w, "rf_load")
    /\ Forget(w)
    /\ UNCHANGED <<cbVars, now, cancelled, locVars, histVars, pipeVars, auxVars>>

CallRecordSuccess(w) ==
    /\ pc[w] = "idle"
    /\ caller' = [caller EXCEPT ![w] = "direct"]
    /\ Goto(w, "rs_load")
    /\ Forget(w)
    /\ UNCHANGED <<cbVars, now, cancelled, locVars, histVars, pipeVars, auxVars>>

\* A directly called method returns to the client.
Return(w) ==
    /\ pc[w] \in {"ce_done", "rf_done", "rs_done"}
    /\ caller[w] = "direct"
    /\ caller' = [caller EXCEPT ![w] = "none"]
    /\ Goto(w, "idle")
    /\ ClearLocals(w)
    /\ UNCHANGED <<cbVars, now, cancelled, rbVars, histVars, pipeVars, auxVars>>

\* -------------------------------------------------------------- canExecute

\* state := atomic.LoadInt32(&cb.state); Closed and HalfOpen return true.
CeLoad(w) ==
    /\ pc[w] = "ce_load"
    /\ st' = [st EXCEPT ![w] = state]
    /\ IF state = StateOpen
          THEN /\ Goto(w, "ce_time")
               /\ UNCHANGED ret
          ELSE /\ Goto(w, "ce_done")
               /\ ret' = [ret EXCEPT ![w] = TRUE]
    /\ UNCHANGED <<cbVars, now, cancelled, caller, fl, lf, sc, rbVars, histVars, pipeVars, auxVars>>

\* lastFailure := atomic.LoadInt64(&cb.lastFailureTime)
CeTime(w) ==
    /\ pc[w] = "ce_time"
    /\ lf' = [lf EXCEPT ![w] = lastFailureTime]
    /\ Goto(w, "ce_check")
    /\ UNCHANGED <<cbVars, now, cancelled, caller, st, fl, sc, ret, rbVars, histVars, pipeVars, auxVars>>

\* if time.Since(lastFailure) > cb.resetTimeout { ... } return false
CeCheck(w) ==
    /\ pc[w] = "ce_check"
    /\ IF TimeoutElapsed(now, lf[w])
          THEN /\ Goto(w, "ce_cas")
               /\ UNCHANGED ret
          ELSE /\ Goto(w, "ce_done")
               /\ ret' = [ret EXCEPT ![w] = FALSE]
    /\ lf' = [lf EXCEPT ![w] = 0]
    /\ UNCHANGED <<cbVars, now, cancelled, caller, st, fl, sc, rbVars, histVars, pipeVars, auxVars>>

\* if CompareAndSwap(&cb.state, Open, HalfOpen) { ... } return true
CeCas(w) ==
    /\ pc[w] = "ce_cas"
    /\ IF CompareAndSwap(state, StateOpen)
          THEN /\ state' = StateHalfOpen
               /\ winners' = winners \cup {w}
               /\ probe' = NoProbe
               /\ Goto(w, "ce_store")
               /\ UNCHANGED ret
          ELSE /\ Goto(w, "ce_done")
               /\ ret' = [ret EXCEPT ![w] = TRUE]
               /\ UNCHANGED <<state, winners, probe>>
    /\ UNCHANGED <<failures, lastFailureTime, halfOpenSuccesses, now, cancelled,
                   caller, st, fl, lf, sc, rbVars, sequential, consec, pipeVars, auxVars>>

\* The transition clearing both counters instead of the probe-success counter alone.
CeStoreAllCounters(w) ==
    /\ pc[w] = "ce_store"
    /\ halfOpenSuccesses' = 0
    /\ failures' = 0
    /\ ret' = [ret EXCEPT ![w] = TRUE]
    /\ Goto(w, "ce_done")
    /\ UNCHANGED <<state, lastFailureTime, now, cancelled, caller,
                   st, fl, lf, sc, rbVars, histVars, pipeVars, auxVars>>

\* atomic.StoreInt32(&cb.halfOpenSuccesses, 0); return true
CeStore(w) ==
    /\ pc[w] = "ce_store"
    /\ halfOpenSuccesses' = 0
    /\ ret' = [ret EXCEPT ![w] = TRUE]
    /\ Goto(w, "ce_done")
    /\ UNCHANGED <<state, failures, lastFailureTime, now, cancelled, caller,
                   st, fl, lf, sc, rbVars, histVars, pipeVars, auxVars>>

\* ----------------------------------------------------------- recordFailure

\* state := atomic.LoadInt32(&cb.state)
RfLoad(w) ==
    /\ pc[w] = "rf_load"
    /\ st' = [st EXCEPT ![w] = state]
    /\ consec' = IF sequential THEN consec + 1 ELSE consec
    /\ Goto(w, "rf_add")
    /\ UNCHANGED <<cbVars, now, cancelled, caller, fl, lf, sc, ret, rbVars, sequential,
                   winners, probe, pipeVars, auxVars>>

\* failures := atomic.AddInt32(&cb.failures, 1)
RfAdd(w) ==
    /\ pc[w] = "rf_add"
    /\ failures' = failures + 1
    /\ fl' = [fl EXCEPT ![w] = failures + 1]
    /\ Goto(w, "rf_time")
    /\ UNCHANGED <<state, lastFailureTime, halfOpenSuccesses, now, cancelled,
                   caller, st, lf, sc, ret, rbVars, histVars, pipeVars, auxVars>>

\* atomic.StoreInt64(&cb.lastFailureTime, time.Now().UnixNano()): the clock is
\* read and the timestamp stored in one step.
RfTime(w) ==
    /\ pc[w] = "rf_time"
    /\ lastFailureTime' = now
    /\ Goto(w, "rf_switch")
    /\ UNCHANGED <<state, failures, halfOpenSuccesses, now, cancelled, caller,
                   locVars, rbVars, histVars, pipeVars, auxVars>>

\* switch state { case StateClosed: ...; case StateHalfOpen: ... }
RfSwitch(w) ==
    /\ pc[w] = "rf_switch"
    /\ CASE st[w] = StateClosed /\ ShouldOpen(fl[w]) /\ CompareAndSwap(state, StateClosed) ->
                /\ state' = StateOpen
                /\ winners' = {}
                /\ probe' = NoProbe
                /\ Goto(w, "rf_done")
         [] st[w] = StateHalfOpen /\ CompareAndSwap(state, StateHalfOpen) ->
                /\ state' = StateOpen
                /\ winners' = {}
                /\ probe' = NoProbe
                /\ Goto(w, "rf_reset")
         [] OTHER ->
                /\ Goto(w, "rf_done")
                /\ UNCHANGED <<state, winners, probe>>
    /\ fl' = [fl EXCEPT ![w] = 0]
    /\ UNCHANGED <<failures, lastFailureTime, halfOpenSuccesses, now, cancelled,
                   caller, st, lf, sc, ret, rbVars, sequential, consec, pipeVars, auxVars>>

\* atomic.StoreInt32(&cb.failures, 0) after reopening from HalfOpen
RfReset(w) ==
    /\ pc[w] = "rf_reset"
    /\ failures' = 0
    /\ Goto(w, "rf_done")
    /\ UNCHANGED <<state, lastFailureTime, halfOpenSuccesses, now, cancelled,
                   caller, locVars, rbVars, histVars, pipeVars, auxVars>>

\* ----------------------------------------------------------- recordSuccess

\* state := atomic.LoadInt32(&cb.state); an Open breaker is left alone.
RsLoad(w) ==
    /\ pc[w] = "rs_load"
    /\ st' = [st EXCEPT ![w] = state]
    /\ consec' = 0
    /\ probe' = [probe EXCEPT !.fresh = IF state = StateHalfOpen THEN @ \cup {w} ELSE @]
    /\ Goto(w, CASE state = StateClosed -> "rs_reset"
                 [] state = StateHalfOpen -> "rs_add"
                 [] OTHER -> "rs_done")
    /\ UNCHANGED <<cbVars, now, cancelled, caller, fl, lf, sc, ret, rbVars, sequential,
                   winners, pipeVars, auxVars>>

\* case StateClosed: atomic.StoreInt32(&cb.failures, 0)
RsReset(w) ==
    /\ pc[w] = "rs_reset"
    /\ failures' = 0
    /\ Goto(w, "rs_done")
    /\ UNCHANGED <<state, lastFailureTime, halfOpenSuccesses, now, cancelled,
                   caller, locVars, rbVars, histVars, pipeVars, auxVars>>

\* case StateHalfOpen: successes := atomic.AddInt32(&cb.halfOpenSuccesses, 1)
RsAdd(w) ==
    /\ pc[w] = "rs_add"
    /\ halfOpenSuccesses' = halfOpenSuccesses + 1
    /\ sc' = [sc EXCEPT ![w] = halfOpenSuccesses + 1]
    /\ probe' = [fresh |-> probe.fresh \ {w},
                 counted |-> IF w \in probe.fresh THEN probe.counted + 1 ELSE probe.counted]
    /\ Goto(w, "rs_cas")
    /\ UNCHANGED <<state, failures, lastFailureTime, now, cancelled, caller,
                   st, fl, lf, ret, rbVars, sequential, consec, winners, pipeVars, auxVars>>

\* if successes >= cb.halfOpenSuccess { if CompareAndSwap(HalfOpen, Closed) {...} }
RsCas(w) ==
    /\ pc[w] = "rs_cas"
    /\ IF ShouldClose(sc[w]) /\ CompareAndSwap(state, StateHalfOpen)
          THEN /\ state' = StateClosed
               /\ probe' = NoProbe
               /\ Goto(w, "rs_clear1")
          ELSE /\ Goto(w, "rs_done")
               /\ UNCHANGED <<state, probe>>
    /\ UNCHANGED <<failures, lastFailureTime, halfOpenSuccesses, now, cancelled,
                   caller, locVars, rbVars, sequential, consec, winners, pipeVars, auxVars>>

\* atomic.StoreInt32(&cb.failures, 0)
RsClear1(w) ==
    /\ pc[w] = "rs_clear1"
    /\ failures' = 0
    /\ Goto(w, "rs_clear2")
    /\ UNCHANGED <<state, lastFailureTime, halfOpenSuccesses, now, cancelled,
                   caller, locVars, rbVars, histVars, pipeVars, auxVars>>

\* atomic.StoreInt32(&cb.halfOpenSuccesses, 0)
RsClear2(w) ==
    /\ pc[w] = "rs_clear2"
    /\ halfOpenSuccesses' = 0
    /\ Goto(w, "rs_done")
    /\ UNCHANGED <<state, failures, lastFailureTime, now, cancelled, caller,
                   locVars, rbVars, histVars, pipeVars, auxVars>>

\* The breaker's methods, step by step.
BreakerStep(w) ==
    \/ CeLoad(w) \/ CeTime(w) \/ CeCheck(w) \/ CeCas(w) \/ CeStore(w)
    \/ RfLoad(w) \/ RfAdd(w) \/ RfTime(w) \/ RfSwitch(w) \/ RfReset(w)
    \/ RsLoad(w) \/ RsReset(w) \/ RsAdd(w) \/ RsCas(w) \/ RsClear1(w) \/ RsClear2(w)

\* ------------------------------------------------------ CircuitBreaker.Call

Log(w, e) == trace' = [trace EXCEPT ![w] = Append(@, e)]

\* The operation is one that may fail only while the failure counter is below
\* the model's cap (a nil breaker counts nothing).
MayFail(w) ==
    \/ caller[w] = "Retry" /\ ~config[w].CircuitBreaker
    \/ failures < MaxFailCount

\* cb.Call(fn) begins: if !cb.canExecute() ...
StartCall(w) ==
    /\ pc[w] = "idle"
    /\ caller' = [caller EXCEPT ![w] = "Call"]
    /\ Forget(w)
    /\ Goto(w, "ce_load")
    /\ UNCHANGED <<cbVars, now, cancelled, locVars, histVars, pipeVars, auxVars>>

\* if !cb.canExecute() { return ErrCircuitOpen }
CallAfterCanExecute(w) ==
    /\ pc[w] = "ce_done"
    /\ caller[w] = "Call"
    /\ Log(w, <<"canExecute", ret[w]>>)
    /\ IF ret[w]
          THEN /\ Goto(w, "call_fn")
               /\ UNCHANGED <<caller, result>>
          ELSE /\ Goto(w, "idle")
               /\ caller' = [caller EXCEPT ![w] = "none"]
               /\ result' = [result EXCEPT ![w] = <<"ErrCircuitOpen">>]
    /\ ClearLocals(w)
    /\ UNCHANGED <<cbVars, now, cancelled, config, attempt, delay, lastErr, histVars, pipeVars, auxVars>>

\* err := fn(); if err != nil { cb.recordFailure() ... } cb.recordSuccess()
CallFn(w) ==
    /\ pc[w] = "call_fn"
    /\ \E e \in {"nil"} \cup Errs :
        /\ e # "nil" => MayFail(w)
        /\ lastErr' = [lastErr EXCEPT ![w] = e]
        /\ Log(w, <<"fn", e>>)
        /\ Goto(w, IF e = "nil" THEN "rs_load" ELSE "rf_load")
    /\ UNCHANGED <<cbVars, now, cancelled, caller, locVars, config, attempt, delay,
                   result, histVars, pipeVars, auxVars>>

\* return err / return nil
CallAfterRecord(w) ==
    /\ pc[w] \in {"rf_done", "rs_done"}
    /\ caller[w] = "Call"
    /\ Log(w, <<IF pc[w] = "rf_done" THEN "recordFailure" ELSE "recordSuccess">>)
    /\ result' = [result EXCEPT ![w] = <<lastErr[w]>>]
    /\ caller' = [caller EXCEPT ![w] = "none"]
    /\ Goto(w, "idle")
    /\ ClearLocals(w)
    /\ UNCHANGED <<cbVars, now, cancelled, config, attempt, delay, lastErr, histVars, pipeVars, auxVars>>

CallStep(w) ==
    \/ StartCall(w) \/ CallAfterCanExecute(w) \/ CallFn(w) \/ CallAfterRecord(w)

\* -------------------------------------------------------- RetryWithBackoff

\* delay = time.Duration(float64(delay) * config.Multiplier), capped by MaxDelay.
\* Multiplier is integral and the products are far below 2^53, so the
\* conversions to float64 and back lose nothing.
NextDelayUncapped(d) == d * Multiplier
NextDelay(d) == IF d * Multiplier > MaxDelay THEN MaxDelay ELSE d * Multiplier

\* if attempt >= config.MaxAttempts { break }
ExhaustedOneLate(a, m) == a > m
Exhausted(a, m) == a >= m

\* lastErr = err
KeepFirstErr(old, e) == IF old = "nil" THEN e ELSE old
KeepLastErr(old, e) == e

\* case <-ctx.Done(): the channel is closed once the context is cancelled.
CtxDoneNever(c) == FALSE
CtxDone(c) == c

\* Where a failed invocation goes on: recordFailure if a breaker is bound,
\* else straight to the exhaustion check.
AfterFailureAlwaysRecords(bound) == "rf_load"
AfterFailureNeverRecords(bound) == "rb_check"
AfterFailure(bound) == IF bound THEN "rf_load" ELSE "rb_check"

\* RetryWithBackoff returns r to its caller.
RbReturn(w, r) ==
    /\ result' = [result EXCEPT ![w] = r]
    /\ caller' = [caller EXCEPT ![w] = "none"]
    /\ Goto(w, "idle")

\* RetryWithBackoff(ctx, config, fn) begins: delay := config.InitialDelay; attempt := 1
StartRetry(w) ==
    /\ pc[w] = "idle"
    /\ \E m \in 1..MaxAttemptsBound, d \in Delays, b \in BOOLEAN :
        /\ config' = [config EXCEPT ![w] = [MaxAttempts |-> m, InitialDelay |-> d,
                                            CircuitBreaker |-> b]]
        /\ delay' = [delay EXCEPT ![w] = d]
    /\ caller' = [caller EXCEPT ![w] = "Retry"]
    /\ attempt' = [attempt EXCEPT ![w] = 1]
    /\ lastErr' = [lastErr EXCEPT ![w] = "nil"]
    /\ result' = [result EXCEPT ![w] = <<"none">>]
    /\ trace' = [trace EXCEPT ![w] = <<>>]
    /\ Goto(w, "rb_loop")
    /\ UNCHANGED <<cbVars, now, cancelled, locVars, histVars, pipeVars, auxVars>>

\* for ...; attempt <= config.MaxAttempts; ... { if config.CircuitBreaker != nil { canExecute
RbLoop(w) ==
    /\ pc[w] = "rb_loop"
    /\ IF attempt[w] <= config[w].MaxAttempts
          THEN /\ Goto(w, IF config[w].CircuitBreaker THEN "ce_load" ELSE "rb_fn")
               /\ UNCHANGED <<caller, result>>
          ELSE RbReturn(w, <<"max retries exceeded", lastErr[w]>>)
    /\ UNCHANGED <<cbVars, now, cancelled, locVars, config, attempt, delay, lastErr,
                   trace, histVars, pipeVars, auxVars>>

\* Variants of the breaker check: one that ignores the answer, one that sits out
\* the backoff delay before reporting the denial.
RbAfterCanExecuteIgnoring(w) ==
    /\ pc[w] = "ce_done"
    /\ caller[w] = "Retry"
    /\ Log(w, <<"canExecute", ret[w]>>)
    /\ Goto(w, "rb_fn")
    /\ ClearLocals(w)
    /\ UNCHANGED <<cbVars, now, cancelled, caller, result, config, attempt, delay,
                   lastErr, histVars, pipeVars, auxVars>>

RbAfterCanExecuteWaiting(w) ==
    /\ pc[w] = "ce_done"
    /\ caller[w] = "Retry"
    /\ IF ret[w]
          THEN /\ Log(w, <<"canExecute", ret[w]>>)
               /\ Goto(w, "rb_fn")
               /\ UNCHANGED <<caller, result>>
          ELSE /\ trace' = [trace EXCEPT ![w] =
                                @ \o << <<"canExecute", ret[w]>>, <<"wait", delay[w]>> >>]
               /\ RbReturn(w, <<"circuit breaker open", "ErrCircuitOpen">>)
    /\ ClearLocals(w)
    /\ UNCHANGED <<cbVars, now, cancelled, config, attempt, delay, lastErr, histVars, pipeVars, auxVars>>

\* if !config.CircuitBreaker.canExecute() { return "circuit breaker open: %w" }
RbAfterCanExecute(w) ==
    /\ pc[w] = "ce_done"
    /\ caller[w] = "Retry"
    /\ Log(w, <<"canExecute", ret[w]>>)
    /\ IF ret[w]
          THEN /\ Goto(w, "rb_fn")
               /\ UNCHANGED <<caller, result>>
          ELSE RbReturn(w, <<"circuit breaker open", "ErrCircuitOpen">>)
    /\ ClearLocals(w)
    /\ UNCHANGED <<cbVars, now, cancelled, config, attempt, delay, lastErr, histVars, pipeVars, auxVars>>

\* err := fn(); if err == nil { recordSuccess; return nil }; lastErr = err; recordFailure
RbFn(w) ==
    /\ pc[w] = "rb_fn"
    /\ \E e \in {"nil"} \cup Errs :
        /\ e # "nil" => MayFail(w)
        /\ Log(w, <<"fn", e>>)
        /\ IF e = "nil"
              THEN /\ UNCHANGED lastErr
                   /\ IF config[w].CircuitBreaker
                         THEN /\ Goto(w, "rs_load")
                              /\ UNCHANGED <<caller, result>>
                         ELSE RbReturn(w, <<"nil">>)
              ELSE /\ lastErr' = [lastErr EXCEPT ![w] = KeepLastErr(@, e)]
                   /\ Goto(w, AfterFailure(config[w].CircuitBreaker))
                   /\ UNCHANGED <<caller, result>>
    /\ UNCHANGED <<cbVars, now, cancelled, locVars, config, attempt, delay, histVars, pipeVars, auxVars>>

\* A variant that carries on with the loop after a success.
RbAfterSuccessContinue(w) ==
    /\ pc[w] = "rs_done"
    /\ caller[w] = "Retry"
    /\ Log(w, <<"recordSuccess">>)
    /\ Goto(w, "rb_check")
    /\ ClearLocals(w)
    /\ UNCHANGED <<cbVars, now, cancelled, caller, result, config, attempt, delay,
                   lastErr, histVars, pipeVars, auxVars>>

\* config.CircuitBreaker.recordSuccess(); return nil
RbAfterSuccess(w) ==
    /\ pc[w] = "rs_done"
    /\ caller[w] = "Retry"
    /\ Log(w, <<"recordSuccess">>)
    /\ RbReturn(w, <<"nil">>)
    /\ ClearLocals(w)
    /\ UNCHANGED <<cbVars, now, cancelled, config, attempt, delay, lastErr, histVars, pipeVars, auxVars>>

\* config.CircuitBreaker.recordFailure() has returned
RbAfterFailure(w) ==
    /\ pc[w] = "rf_done"
    /\ caller[w] = "Retry"
    /\ Log(w, <<"recordFailure">>)
    /\ Goto(w, "rb_check")
    /\ ClearLocals(w)
    /\ UNCHANGED <<cbVars, now, cancelled, caller, config, attempt, delay, lastErr,
                   result, histVars, pipeVars, auxVars>>

\* if attempt >= config.MaxAttempts { break } ... return "max retries (%d) exceeded: %w"
RbCheck(w) ==
    /\ pc[w] = "rb_check"
    /\ IF Exhausted(attempt[w], config[w].MaxAttempts)
          THEN RbReturn(w, <<"max retries exceeded", lastErr[w]>>)
          ELSE /\ Goto(w, "rb_wait")
               /\ UNCHANGED <<caller, result>>
    /\ UNCHANGED <<cbVars, now, cancelled, locVars, config, attempt, delay, lastErr,
                   trace, histVars, pipeVars, auxVars>>

\* select { case <-ctx.Done(): return "retry cancelled" }
RbWaitCancelled(w) ==
    /\ pc[w] = "rb_wait"
    /\ CtxDone(cancelled)
    /\ RbReturn(w, <<"retry cancelled", "ctx.Err">>)
    /\ UNCHANGED <<cbVars, now, cancelled, locVars, config, attempt, delay, lastErr,
                   trace, histVars, pipeVars, auxVars>>

\* select { case <-time.After(delay): }; delay = next delay; attempt++
\* delay is positive, so the timer is not ready when the select is entered, and a
\* goroutine parked in the select is woken by whichever channel becomes ready
\* first: the timer case is taken only if the timer fires before ctx.Done() closes.
RbWaitElapsed(w) ==
    /\ pc[w] = "rb_wait"
    /\ ~CtxDone(cancelled)
    /\ Log(w, <<"wait", delay[w]>>)
    /\ delay' = [delay EXCEPT ![w] = NextDelay(@)]
    /\ attempt' = [attempt EXCEPT ![w] = @ + 1]
    /\ Goto(w, "rb_loop")
    /\ UNCHANGED <<cbVars, now, cancelled, caller, locVars, config, lastErr, result,
                   histVars, pipeVars, auxVars>>

RetryStep(w) ==
    \/ StartRetry(w) \/ RbLoop(w) \/ RbAfterCanExecute(w) \/ RbFn(w)
    \/ RbAfterSuccess(w) \/ RbAfterFailure(w) \/ RbCheck(w)
    \/ RbWaitCancelled(w) \/ RbWaitElapsed(w)

DirectStep(w) ==
    \/ CallCanExecute(w) \/ CallRecordFailure(w) \/ CallRecordSuccess(w) \/ Return(w)

\* Several goroutines calling the methods of one breaker in any order.
Next ==
    \/ Tick
    \/ \E w \in Workers : DirectStep(w) \/ BreakerStep(w)

Spec == Init /\ [][Next]_vars

\* One caller using the breaker directly, through Call and through RetryWithBackoff.
NextSeq ==
    \/ Tick
    \/ Cancel
    \/ \E w \in SeqWorkers : DirectStep(w) \/ BreakerStep(w) \/ CallStep(w) \/ RetryStep(w)

SpecSeq == InitSeq /\ [][NextSeq]_vars

\* One caller applying recordSuccess and recordFailure, one call at a time, to a
\* breaker that starts Closed.
NextRecord ==
    \/ Tick
    \/ \E w \in SeqWorkers :
        \/ CallRecordFailure(w) \/ CallRecordSuccess(w) \/ Return(w)
        \/ RfLoad(w) \/ RfAdd(w) \/ RfTime(w) \/ RfSwitch(w)
        \/ RsLoad(w) \/ RsReset(w)

SpecRecord == InitSeq /\ [][NextRecord]_vars

\* A client that runs RetryWithBackoff with a bound breaker and then repeats the
\* call with the same MaxAttempts and InitialDelay but CircuitBreaker = nil.
StartBound(w, v) ==
    /\ pc[w] = "idle"
    /\ pc[v] = "idle"
    /\ \E m \in 1..MaxAttemptsBound, d \in Delays :
        /\ config' = [config EXCEPT ![w] = [MaxAttempts |-> m, InitialDelay |-> d,
                                            CircuitBreaker |-> TRUE],
                                    ![v] = NoConfig]
        /\ delay' = [delay EXCEPT ![w] = d, ![v] = 0]
    /\ caller' = [caller EXCEPT ![w] = "Retry"]
    /\ attempt' = [attempt EXCEPT ![w] = 1, ![v] = 0]
    /\ lastErr' = [lastErr EXCEPT ![w] = "nil", ![v] = "nil"]
    /\ result' = [result EXCEPT ![w] = <<"none">>, ![v] = <<"none">>]
    /\ trace' = [trace EXCEPT ![w] = <<>>, ![v] = <<>>]
    /\ Goto(w, "rb_loop")
    /\ UNCHANGED <<cbVars, now, cancelled, locVars, histVars, pipeVars, auxVars>>

StartNil(v, w) ==
    /\ pc[v] = "idle"
    /\ pc[w] = "idle"
    /\ config[w].CircuitBreaker
    /\ result[w] # <<"none">>
    /\ result[v] = <<"none">>
    /\ config' = [config EXCEPT ![v] = [config[w] EXCEPT !.CircuitBreaker = FALSE]]
    /\ delay' = [delay EXCEPT ![v] = config[w].InitialDelay]
    /\ caller' = [caller EXCEPT ![v] = "Retry"]
    /\ attempt' = [attempt EXCEPT ![v] = 1]
    /\ Goto(v, "rb_loop")
    /\ UNCHANGED <<cbVars, now, cancelled, locVars, lastErr, result, trace, histVars, pipeVars, auxVars>>

NextPair ==
    \/ Tick
    \/ StartBound("w1", "w2")
    \/ StartNil("w2", "w1")
    \/ \E w \in Workers :
        \/ BreakerStep(w)
        \/ RbLoop(w) \/ RbAfterCanExecute(w) \/ RbFn(w) \/ RbAfterSuccess(w)
        \/ RbAfterFailure(w) \/ RbCheck(w) \/ RbWaitElapsed(w)

SpecPair == Init /\ [][NextPair]_vars

\* ------------------------------------------------------ validateTransaction

ValidSttlmMethods == {"CLRG", "INDA", "INGA", "COVE"}
ValidChrgBr == {"DEBT", "CRED", "SHAR", "SLEV"}

\* result.Valid = false; result.ErrorCode = code
FailKeepsFirst(r, code) == IF r.Valid THEN [r EXCEPT !.Valid = FALSE, !.ErrorCode = code] ELSE r
Fail(r, code) == [r EXCEPT !.Valid = FALSE, !.ErrorCode = code]

\* for i, tx := range doc.FIToFICstmrCdtTrf.CdtTrfTxInf { ... }, from index i on
RECURSIVE ValidateTxs(_, _, _)
ValidateTxs(r, txs, i) ==
    IF i >= Len(txs)
       THEN r
       ELSE LET tx == txs[i + 1]
                r1 == IF tx.InstrId = ""
                         THEN Fail(r, "MISSING_PMT_ID_TX" \o ToString(i)) ELSE r
                r2 == IF tx.Ccy = ""
                         THEN Fail(r1, "MISSING_CURRENCY_TX" \o ToString(i)) ELSE r1
                r3 == IF tx.Value = ""
                         THEN Fail(r2, "MISSING_AMOUNT_TX" \o ToString(i)) ELSE r2
                r4 == IF tx.IntrBkSttlmDt = ""
                         THEN Fail(r3, "MISSING_STTLM_DT_TX" \o ToString(i)) ELSE r3
                r5 == IF tx.ChrgBr \notin ValidChrgBr
                         THEN Fail(r4, "INVALID_CHRG_BR_TX" \o ToString(i)) ELSE r4
            IN ValidateTxs(r5, txs, i + 1)

\* len(bic) < 8 || len(bic) > 11
BadBIC(bic) == Len(bic) < 8 \/ Len(bic) > 11

\* validateTransaction(data), for the message numbered id whose bytes unmarshal
\* to doc. ErrorMsg, Timestamp and Latency are left out: ErrorMsg is set together
\* with ErrorCode, the other two are clock readings.
validateTransaction(id, doc) ==
    LET txs == doc.CdtTrfTxInf
        r0 == [id |-> id, Valid |-> TRUE, ErrorCode |-> "", MsgId |-> ""]
        r1 == IF doc.MsgId = "" THEN Fail(r0, "MISSING_MSG_ID")
                                ELSE [r0 EXCEPT !.MsgId = doc.MsgId]
        r2 == IF doc.NbOfTxs <= 0 THEN Fail(r1, "INVALID_TX_COUNT") ELSE r1
        r3 == IF doc.SttlmMtd \notin ValidSttlmMethods
                 THEN Fail(r2, "INVALID_STTLM_MTD") ELSE r2
        r4 == IF Len(txs) = 0 THEN Fail(r3, "NO_TRANSACTIONS") ELSE r3
        r5 == IF Len(txs) > 0 /\ BadBIC(txs[1].DbtrBIC)
                 THEN Fail(r4, "INVALID_DBTR_BIC") ELSE r4
        r6 == IF Len(txs) > 0 /\ BadBIC(txs[1].CdtrBIC)
                 THEN Fail(r5, "INVALID_CDTR_BIC") ELSE r5
    IN IF ~doc.parses THEN Fail(r0, "XML_PARSE_ERROR") ELSE ValidateTxs(r6, txs, 0)

\* ----------------------------------------------------------- checkLiquidity

\* What checkLiquidity(data) may return for doc, with what it did on the way:
\* it rejects bytes that do not parse and amounts that do not parse, approves a
\* message without transactions, approves when there is no client or when the
\* call fails, and otherwise follows the service's answer (crediting the
\* destination bank after an approval).
checkLiquidity(doc) ==
    IF ~doc.parses
       THEN {[approved |-> FALSE, code |-> "LIQUIDITY_CHECK_ERROR", did |-> "parse_error"]}
    ELSE IF Len(doc.CdtTrfTxInf) = 0
       THEN {[approved |-> TRUE, code |-> "", did |-> "no_tx"]}
    ELSE IF doc.CdtTrfTxInf[1].Value \notin FloatLiterals
       THEN {[approved |-> FALSE, code |-> "LIQUIDITY_CHECK_ERROR", did |-> "amount_error"]}
    ELSE IF liquidityClient = "nil"
       THEN {[approved |-> TRUE, code |-> "", did |-> "no_client"]}
    ELSE {[approved |-> TRUE, code |-> "", did |-> "call_failed"],
          [approved |-> TRUE, code |-> "", did |-> "debited_credited"]}
         \cup {[approved |-> FALSE, code |-> c, did |-> "denied"] : c \in DenialCodes}

\* broadcastTransactionToWS(result, data) reaches BroadcastTransaction unless the
\* bytes do not parse or carry no transaction.
Broadcasts(doc) == doc.parses /\ Len(doc.CdtTrfTxInf) # 0

\* ----------------------------------------------------------------- pipeline

\* The process is alive: it has not panicked and main has not returned.
Running == ~crashed /\ ppc["main"] # "m_done"

PGoto(p, l) == ppc' = [ppc EXCEPT ![p] = l]

breakerVars == <<cbVars, now, pc, caller, locVars, rbVars, histVars>>

\* The goroutine that waits for SIGINT/SIGTERM calls cancel().
Shutdown == Running /\ Cancel

\* readMessages: select { case <-ctx.Done(): return; default: ... }
ReaderSelect ==
    /\ Running
    /\ ppc["reader"] = "r_select"
    /\ PGoto("reader", IF cancelled THEN "r_exit" ELSE "r_read")
    /\ UNCHANGED <<auxVars, breakerVars, cancelled, liquidityClient, fetched, chanVars, msg, work,
                   vresult, metrics, crashed, pipeHist>>

\* msg, err := reader.ReadMessage(ctx) returns a message;
\* atomic.AddInt64(&metrics.MessagesConsumed, 1)
ReaderReadMessage ==
    /\ Running
    /\ ppc["reader"] = "r_read"
    /\ Len(fetched) + metrics.Errors < NumMessages
    /\ \E d \in Payloads :
        /\ msg' = [id |-> Len(fetched) + 1, doc |-> d]
        /\ fetched' = Append(fetched, d)
    /\ metrics' = [metrics EXCEPT !.MessagesConsumed = @ + 1]
    /\ PGoto("reader", "r_send")
    /\ UNCHANGED <<auxVars, breakerVars, cancelled, liquidityClient, chanVars, work, vresult,
                   crashed, pipeHist>>

\* ReadMessage fails and ctx.Err() != nil: return
ReaderReadCancelled ==
    /\ Running
    /\ ppc["reader"] = "r_read"
    /\ cancelled
    /\ PGoto("reader", "r_exit")
    /\ UNCHANGED <<auxVars, breakerVars, cancelled, liquidityClient, fetched, chanVars, msg, work,
                   vresult, metrics, crashed, pipeHist>>

\* ReadMessage fails with context.DeadlineExceeded: continue
ReaderReadTimeout ==
    /\ Running
    /\ ppc["reader"] = "r_read"
    /\ ~cancelled
    /\ PGoto("reader", "r_select")
    /\ UNCHANGED <<auxVars, breakerVars, cancelled, liquidityClient, fetched, chanVars, msg, work,
                   vresult, metrics, crashed, pipeHist>>

\* ReadMessage fails with another error: atomic.AddInt64(&metrics.Errors, 1); continue
ReaderReadError ==
    /\ Running
    /\ ppc["reader"] = "r_read"
    /\ ~cancelled
    /\ Len(fetched) + metrics.Errors < NumMessages
    /\ metrics' = [metrics EXCEPT !.Errors = @ + 1]
    /\ PGoto("reader", "r_select")
    /\ UNCHANGED <<auxVars, breakerVars, cancelled, liquidityClient, fetched, chanVars, msg, work,
                   vresult, crashed, pipeHist>>

\* A send on a buffered channel of capacity cap is ready when the buffer has room.
RoomAlways(q, cap) == TRUE
HasRoom(q, cap) == Len(q) < cap

\* select { case workChan <- WorkItem{Data: msg.Value}: ... }: the send case is
\* ready when the channel has room, and also when it is closed, and then it panics.
ReaderSend ==
    /\ Running
    /\ ppc["reader"] = "r_send"
    /\ IF workChanClosed
          THEN /\ crashed' = TRUE
               /\ UNCHANGED <<workChan, msg, ppc>>
          ELSE /\ HasRoom(workChan, WorkChanCap)
               /\ workChan' = Append(workChan, msg)
               /\ msg' = NoItem
               /\ PGoto("reader", "r_select")
               /\ UNCHANGED crashed
    /\ UNCHANGED <<auxVars, breakerVars, cancelled, liquidityClient, fetched, workChanClosed, results,
                   resultsClosed, work, vresult, metrics, pipeHist>>

\* select { ... case <-ctx.Done(): return }
ReaderSendCancelled ==
    /\ Running
    /\ ppc["reader"] = "r_send"
    /\ cancelled
    /\ msg' = NoItem
    /\ PGoto("reader", "r_exit")
    /\ UNCHANGED <<auxVars, breakerVars, cancelled, liquidityClient, fetched, chanVars, work, vresult,
                   metrics, crashed, pipeHist>>

\* processMessages: select { case <-ctx.Done(): return }, then the deferred wg.Done()
WorkerCtxDone(p) ==
    /\ Running
    /\ ppc[p] = "w_select"
    /\ cancelled
    /\ PGoto(p, "w_exit")
    /\ UNCHANGED <<auxVars, breakerVars, cancelled, liquidityClient, fetched, chanVars, msg, work,
                   vresult, metrics, crashed, pipeHist>>

\* What a receive leaves in a channel's buffer.
ReceiveKeeps(q) == q
Receive(q) == Tail(q)

\* select { case work, ok := <-workChan: } with ok: an item is received (a closed
\* channel still hands out what it buffers)
WorkerReceive(p) ==
    /\ Running
    /\ ppc[p] = "w_select"
    /\ Len(workChan) > 0
    /\ work' = [work EXCEPT ![p] = Head(workChan)]
    /\ workChan' = Receive(workChan)
    /\ taken' = [taken EXCEPT ![Head(workChan).id] = @ + 1]
    /\ PGoto(p, "w_liquidity")
    /\ UNCHANGED <<auxVars, breakerVars, cancelled, liquidityClient, fetched, workChanClosed, results,
                   resultsClosed, msg, vresult, metrics, crashed, liq, offered, delivered,
                   audit>>

\* select { case work, ok := <-workChan: if !ok { return } }
WorkerChanClosed(p) ==
    /\ Running
    /\ ppc[p] = "w_select"
    /\ workChanClosed
    /\ Len(workChan) = 0
    /\ PGoto(p, "w_exit")
    /\ UNCHANGED <<auxVars, breakerVars, cancelled, liquidityClient, fetched, chanVars, msg, work,
                   vresult, metrics, crashed, pipeHist>>

\* ErrorCode: liquidityErrorCode of the rejection result
RejectionCodeGeneric(o) == "LIQUIDITY_CHECK_ERROR"
RejectionCode(o) == o.code

\* checkLiquidity(work.Data); on a rejection: MessagesInvalid++, the rejection
\* result, broadcastTransactionToWS, and on to the send of the result
WorkerLiquidity(p) ==
    /\ Running
    /\ ppc[p] = "w_liquidity"
    /\ \E o \in checkLiquidity(work[p].doc) :
        /\ liq' = [liq EXCEPT ![work[p].id] = o.did]
        /\ IF o.approved
              THEN /\ PGoto(p, "w_validate")
                   /\ UNCHANGED <<vresult, metrics, offered, audit>>
              ELSE /\ metrics' = [metrics EXCEPT !.MessagesInvalid = @ + 1]
                   /\ audit' = [audit EXCEPT ![work[p].id].invalid = @ + 1,
                                             ![work[p].id].denial =
                                                 IF o.did = "denied" THEN o.code ELSE @]
                   /\ vresult' = [vresult EXCEPT ![p] =
                                    [id |-> work[p].id, Valid |-> FALSE,
                                     ErrorCode |-> RejectionCode(o), MsgId |-> ""]]
                   /\ offered' = [offered EXCEPT ![work[p].id] =
                                    IF Broadcasts(work[p].doc) THEN @ + 1 ELSE @]
                   /\ PGoto(p, "w_send")
    /\ UNCHANGED <<auxVars, breakerVars, cancelled, liquidityClient, fetched, chanVars, msg, work,
                   crashed, taken, delivered>>

\* if result.Valid { MessagesValid++ } else { MessagesInvalid++ }
CountsAsValidNever(r) == FALSE
CountsAsValid(r) == r.Valid

\* result := validateTransaction(work.Data); MessagesValid++ or MessagesInvalid++;
\* broadcastTransactionToWS(result, work.Data)
WorkerValidate(p) ==
    /\ Running
    /\ ppc[p] = "w_validate"
    /\ LET r == validateTransaction(work[p].id, work[p].doc)
       IN /\ vresult' = [vresult EXCEPT ![p] = r]
          /\ metrics' = IF CountsAsValid(r)
                           THEN [metrics EXCEPT !.MessagesValid = @ + 1]
                           ELSE [metrics EXCEPT !.MessagesInvalid = @ + 1]
          /\ audit' = IF CountsAsValid(r)
                         THEN [audit EXCEPT ![work[p].id].validated = @ + 1,
                                            ![work[p].id].valid = @ + 1]
                         ELSE [audit EXCEPT ![work[p].id].validated = @ + 1,
                                            ![work[p].id].invalid = @ + 1]
    /\ offered' = [offered EXCEPT ![work[p].id] =
                     IF Broadcasts(work[p].doc) THEN @ + 1 ELSE @]
    /\ PGoto(p, "w_send")
    /\ UNCHANGED <<auxVars, breakerVars, cancelled, liquidityClient, fetched, chanVars, msg, work,
                   crashed, taken, liq, delivered>>

\* select { case results <- result: } and back to the top of the loop; a send
\* on a closed channel would panic
WorkerSend(p) ==
    /\ Running
    /\ ppc[p] = "w_send"
    /\ IF resultsClosed
          THEN /\ crashed' = TRUE
               /\ UNCHANGED <<results, delivered, work, vresult, ppc>>
          ELSE /\ HasRoom(results, ResultsCap)
               /\ results' = Append(results, vresult[p])
               /\ delivered' = [delivered EXCEPT ![vresult[p].id] = Append(@, vresult[p])]
               /\ work' = [work EXCEPT ![p] = NoItem]
               /\ vresult' = [vresult EXCEPT ![p] = NoResult]
               /\ PGoto(p, "w_select")
               /\ UNCHANGED crashed
    /\ UNCHANGED <<auxVars, breakerVars, cancelled, liquidityClient, fetched, workChan, workChanClosed,
                   resultsClosed, msg, metrics, taken, liq, offered, audit>>

\* select { ... case <-ctx.Done(): return }: the result is not sent
WorkerSendCancelled(p) ==
    /\ Running
    /\ ppc[p] = "w_send"
    /\ cancelled
    /\ work' = [work EXCEPT ![p] = NoItem]
    /\ vresult' = [vresult EXCEPT ![p] = NoResult]
    /\ PGoto(p, "w_exit")
    /\ UNCHANGED <<auxVars, breakerVars, cancelled, liquidityClient, fetched, chanVars, msg, metrics,
                   crashed, pipeHist>>

\* main: <-ctx.Done()
MainCtxDone ==
    /\ Running
    /\ ppc["main"] = "m_wait"
    /\ cancelled
    /\ PGoto("main", "m_close")
    /\ UNCHANGED <<auxVars, breakerVars, cancelled, liquidityClient, fetched, chanVars, msg, work,
                   vresult, metrics, crashed, pipeHist>>

\* main: close(workChan)
MainCloseWork ==
    /\ Running
    /\ ppc["main"] = "m_close"
    /\ workChanClosed' = TRUE
    /\ PGoto("main", "m_join")
    /\ UNCHANGED <<auxVars, breakerVars, cancelled, liquidityClient, fetched, workChan, results,
                   resultsClosed, msg, work, vresult, metrics, crashed, pipeHist>>

\* wg.Wait() may return: every worker has run its deferred wg.Done().
WaitSkipped(at) == TRUE
WaitDone(at) == \A p \in PoolWorkers : at[p] = "w_exit"

\* main: wg.Wait() returns once every worker has run wg.Done(); close(results)
MainJoin ==
    /\ Running
    /\ ppc["main"] = "m_join"
    /\ WaitDone(ppc)
    /\ resultsClosed' = TRUE
    /\ PGoto("main", "m_report")
    /\ UNCHANGED <<auxVars, breakerVars, cancelled, liquidityClient, fetched, workChan, workChanClosed,
                   results, msg, work, vresult, metrics, crashed, pipeHist>>

\* main: the final metrics are logged and main returns, which ends the process
MainReport ==
    /\ Running
    /\ ppc["main"] = "m_report"
    /\ PGoto("main", "m_done")
    /\ UNCHANGED <<auxVars, breakerVars, cancelled, liquidityClient, fetched, chanVars, msg, work,
                   vresult, metrics, crashed, pipeHist>>

\* go func() { for range results { } }(): one result is received
DrainReceive ==
    /\ Running
    /\ ppc["drain"] = "d_recv"
    /\ Len(results) > 0
    /\ results' = Receive(results)
    /\ UNCHANGED <<auxVars, breakerVars, cancelled, liquidityClient, fetched, workChan, workChanClosed,
                   resultsClosed, ppc, msg, work, vresult, metrics, crashed, pipeHist>>

\* for range results ends when the channel is closed and empty
DrainExit ==
    /\ Running
    /\ ppc["drain"] = "d_recv"
    /\ resultsClosed
    /\ Len(results) = 0
    /\ PGoto("drain", "d_exit")
    /\ UNCHANGED <<auxVars, breakerVars, cancelled, liquidityClient, fetched, chanVars, msg, work,
                   vresult, metrics, crashed, pipeHist>>

ReaderStep ==
    \/ ReaderSelect \/ ReaderReadMessage \/ ReaderReadCancelled \/ ReaderReadTimeout
    \/ ReaderReadError \/ ReaderSend \/ ReaderSendCancelled

WorkerStep(p) ==
    \/ WorkerCtxDone(p) \/ WorkerReceive(p) \/ WorkerChanClosed(p) \/ WorkerLiquidity(p)
    \/ WorkerValidate(p) \/ WorkerSend(p) \/ WorkerSendCancelled(p)

MainStep == MainCtxDone \/ MainCloseWork \/ MainJoin \/ MainReport

\* Where the goroutines stand once main has started them all and waits for the
\* shutdown signal.
Started ==
    [p \in Procs |-> CASE p = "reader" -> "r_select"
                       [] p = "main" -> "m_wait"
                       [] p = "drain" -> "d_recv"
                       [] OTHER -> "w_select"]

\* The consumer's pipeline, with or without a liquidity client.
InitPipe == BreakerInit(FALSE) /\ AuxOff /\ \E lc \in {"nil", "live"} : PipeInit(lc, Started)

NextPipe ==
    \/ Shutdown
    \/ ReaderStep
    \/ \E p \in PoolWorkers : WorkerStep(p)
    \/ MainStep
    \/ DrainReceive
    \/ DrainExit

SpecPipe == InitPipe /\ [][NextPipe]_vars

\* The pipeline under the Go scheduler: a goroutine that can run does run. The
\* shutdown signal may never come.
DrainStep == DrainReceive \/ DrainExit

FairPipe ==
    /\ WF_vars(ReaderStep)
    /\ \A p \in PoolWorkers : WF_vars(WorkerStep(p))
    /\ WF_vars(MainStep)
    /\ WF_vars(DrainStep)

\* The pipeline started without a liquidity client (NewLiquidityClient failed).
InitPipeNoClient == BreakerInit(FALSE) /\ AuxOff /\ PipeInit("nil", Started)

SpecPipeFair == InitPipeNoClient /\ [][NextPipe]_vars /\ FairPipe

\* ------------------------------------------------------------ a single item

\* The transactions a message may carry: every field as it should be or not.
Txs ==
    [DbtrBIC : {"MBBEMYKL", "MBB"}, CdtrBIC : {"DBSSSGSG", "DBSSSGSGXXXX"},
     InstrId : {"INSTR1", ""}, Ccy : {"MYR", ""}, Value : {"100.50", "", "abc"},
     IntrBkSttlmDt : {"2024-01-01", ""}, ChrgBr : {"SHAR", "XXXX"}]

\* The transactions that break exactly one of the rules checked per transaction.
FaultyTxs ==
    {[GoodTx EXCEPT !.InstrId = ""], [GoodTx EXCEPT !.Ccy = ""], [GoodTx EXCEPT !.Value = ""],
     [GoodTx EXCEPT !.IntrBkSttlmDt = ""], [GoodTx EXCEPT !.ChrgBr = "XXXX"]}

\* The lists of transactions of a message: none, any one, or two of which each
\* is well-formed or breaks one rule.
TxLists ==
    {<<>>} \cup {<<tx>> : tx \in Txs}
           \cup {<<a, b>> : a \in FaultyTxs \cup {GoodTx}, b \in FaultyTxs \cup {GoodTx}}

\* The messages Kafka may deliver, as xml.Unmarshal sees them.
Documents ==
    {GarbageDoc} \cup
    [parses : {TRUE}, MsgId : {"MSG1", ""}, NbOfTxs : {0, 1}, SttlmMtd : {"CLRG", "XXXX"},
     CdtTrfTxInf : TxLists]

\* The pipeline after the reader has queued its first message, d.
ItemInit(lc, d) ==
    /\ liquidityClient = lc
    /\ fetched = <<d>>
    /\ workChan = <<[id |-> 1, doc |-> d]>>
    /\ workChanClosed = FALSE
    /\ results = <<>>
    /\ resultsClosed = FALSE
    /\ ppc = Started
    /\ msg = NoItem
    /\ work = [p \in PoolWorkers |-> NoItem]
    /\ vresult = [p \in PoolWorkers |-> NoResult]
    /\ metrics = [MessagesConsumed |-> 1, MessagesValid |-> 0, MessagesInvalid |-> 0,
                  Errors |-> 0]
    /\ crashed = FALSE
    /\ taken = [i \in Ids |-> 0]
    /\ liq = [i \in Ids |-> "none"]
    /\ offered = [i \in Ids |-> 0]
    /\ delivered = [i \in Ids |-> <<>>]
    /\ audit = [i \in Ids |-> NoAudit]

InitItem ==
    /\ BreakerInit(FALSE)
    /\ AuxOff
    /\ \E lc \in {"nil", "live"}, d \in Documents : ItemInit(lc, d)

\* One worker takes the message through processMessages while Kafka is silent
\* and no shutdown signal comes.
NextItem ==
    \/ WorkerReceive("p1")
    \/ WorkerLiquidity("p1")
    \/ WorkerValidate("p1")
    \/ WorkerSend("p1")
    \/ DrainReceive

SpecItem == InitItem /\ [][NextItem]_vars

\* ----------------------------------------------------------- periodic tasks

\* The tasks whose loop selects on ctx.Done(): monitorDependencies(ctx, ...) and
\* logMetrics(ctx). broadcastMetricsPeriodically(hub) and
\* broadcastBalancesPeriodically(hub) are not given the context and select on
\* their ticker alone.
ObservesCtx(t) == t \in {"monitor", "logger"}

TGoto(t, l) == tpc' = [tpc EXCEPT ![t] = l]

\* A counter that stops counting at MaxTaskTicks.
Count(n) == IF n < MaxTaskTicks THEN n + 1 ELSE n

\* The runtime puts a tick into ticker.C, which holds one tick at most; the
\* ticker is stopped only when the task returns.
TickerFire(t) ==
    /\ Running
    /\ tpc[t] \notin {"off", "t_exit"}
    /\ ~tickC[t]
    /\ tickC' = [tickC EXCEPT ![t] = TRUE]
    /\ fired' = [fired EXCEPT ![t] = Count(@)]
    /\ UNCHANGED <<breakerVars, cancelled, pipeVars, hubVars, tpc, late>>

\* select { case <-ticker.C: ... }
TaskTick(t) ==
    /\ Running
    /\ tpc[t] = "t_select"
    /\ tickC[t]
    /\ tickC' = [tickC EXCEPT ![t] = FALSE]
    /\ late' = [late EXCEPT ![t] = IF cancelled THEN Count(@) ELSE @]
    /\ TGoto(t, "t_work")
    /\ UNCHANGED <<breakerVars, cancelled, pipeVars, hubVars, fired>>

\* The tick's work (the health checks, the log lines, BroadcastMetrics,
\* broadcastBalances), then back to the select
TaskWork(t) ==
    /\ Running
    /\ tpc[t] = "t_work"
    /\ TGoto(t, "t_select")
    /\ UNCHANGED <<breakerVars, cancelled, pipeVars, hubVars, tickC, fired, late>>

\* select { case <-ctx.Done(): return }, in the tasks that have this case
TaskCtxDone(t) ==
    /\ Running
    /\ ObservesCtx(t)
    /\ tpc[t] = "t_select"
    /\ cancelled
    /\ TGoto(t, "t_exit")
    /\ UNCHANGED <<breakerVars, cancelled, pipeVars, hubVars, tickC, fired, late>>

\* broadcastBalancesPeriodically: time.Sleep(5 * time.Second) is over; the
\* initial broadcastBalances(hub) follows
BalanceSleepDone ==
    /\ Running
    /\ tpc["balanceCast"] = "t_sleep"
    /\ late' = [late EXCEPT !["balanceCast"] = IF cancelled THEN Count(@) ELSE @]
    /\ TGoto("balanceCast", "t_work")
    /\ UNCHANGED <<breakerVars, cancelled, pipeVars, hubVars, tickC, fired>>

TaskStep(t) == TaskTick(t) \/ TaskWork(t) \/ TaskCtxDone(t)

\* Where the tasks stand once main has started them.
TasksStarted == [t \in Tasks |-> IF t = "balanceCast" THEN "t_sleep" ELSE "t_select"]

InitTasks ==
    /\ BreakerInit(FALSE)
    /\ \E lc \in {"nil", "live"} : PipeInit(lc, Started)
    /\ TaskInit(TasksStarted)
    /\ HubInit("off")

\* The periodic tasks, their tickers and the shutdown signal, while the process
\* lives.
NextTasks ==
    \/ Shutdown
    \/ \E t \in Tasks : TickerFire(t)
    \/ \E t \in Tasks : TaskStep(t)
    \/ BalanceSleepDone

\* A running ticker fires, a task that can run does run, and a select that
\* finds ctx.Done() ready again and again takes that case in the end (Go picks
\* among the ready cases at random).
FairTasks ==
    /\ WF_vars(BalanceSleepDone)
    /\ \A t \in Tasks :
        WF_vars(TickerFire(t)) /\ WF_vars(TaskStep(t)) /\ SF_vars(TaskCtxDone(t))

SpecTasks == InitTasks /\ [][NextTasks]_vars /\ FairTasks

\* ---------------------------------------------------------------- the hub

\* The initial status message of a connection; broadcast messages are numbered
\* from 1.
StatusMsg == 0

HGoto(l) == hpc' = [at |-> l, msg |-> 0, todo |-> {}]
CGoto(c, l) == cpc' = [cpc EXCEPT ![c] = l]

\* handleWebSocket: the upgrade succeeded and the client exists, with its send
\* channel; wsHub.register <- client is next
Connect(c) ==
    /\ Running
    /\ hpc.at # "off"
    /\ cpc[c] = "c_new"
    /\ CGoto(c, "c_register")
    /\ UNCHANGED <<breakerVars, cancelled, pipeVars, taskVars, clients, send, sendClosed,
                   broadcast, hpc, wpc, nextMsg, round, got>>

\* Run: case client := <-h.register: h.clients[client] = true; the handler goes
\* on to its status message
HubRegister(c) ==
    /\ Running
    /\ hpc.at = "h_select"
    /\ cpc[c] = "c_register"
    /\ clients' = clients \cup {c}
    /\ CGoto(c, "c_status")
    /\ UNCHANGED <<breakerVars, cancelled, pipeVars, taskVars, send, sendClosed, broadcast,
                   hpc, wpc, nextMsg, round, got>>

\* handleWebSocket: client.send <- statusData, then go client.writePump() and
\* client.readPump(). The send blocks while the buffer is full and panics if the
\* channel is closed; net/http recovers a handler's panic.
SendStatus(c) ==
    /\ Running
    /\ cpc[c] = "c_status"
    /\ IF sendClosed[c]
          THEN /\ CGoto(c, "c_panicked")
               /\ UNCHANGED <<send, wpc>>
          ELSE /\ HasRoom(send[c], SendCap)
               /\ send' = [send EXCEPT ![c] = Append(@, StatusMsg)]
               /\ wpc' = [wpc EXCEPT ![c] = "run"]
               /\ CGoto(c, "c_read")
    /\ UNCHANGED <<breakerVars, cancelled, pipeVars, taskVars, clients, sendClosed, broadcast,
                   hpc, nextMsg, round, got>>

\* readPump: c.conn.ReadMessage() fails; the deferred c.hub.unregister <- c is next
ReadPumpEnds(c) ==
    /\ Running
    /\ cpc[c] = "c_read"
    /\ CGoto(c, "c_unregister")
    /\ UNCHANGED <<breakerVars, cancelled, pipeVars, taskVars, clients, send, sendClosed,
                   broadcast, hpc, wpc, nextMsg, round, got>>

\* if _, ok := h.clients[client]; ok
InSetUnchecked(c, set) == TRUE
InSet(c, set) == c \in set

\* Run: case client := <-h.unregister: a client in the set is deleted and its
\* send channel closed (closing a closed channel would panic)
HubUnregister(c) ==
    /\ Running
    /\ hpc.at = "h_select"
    /\ cpc[c] = "c_unregister"
    /\ IF InSet(c, clients)
          THEN /\ clients' = clients \ {c}
               /\ sendClosed' = [sendClosed EXCEPT ![c] = TRUE]
               /\ crashed' = sendClosed[c]
          ELSE UNCHANGED <<clients, sendClosed, crashed>>
    /\ CGoto(c, "c_done")
    /\ UNCHANGED <<breakerVars, cancelled, taskVars, liquidityClient, fetched, chanVars, ppc,
                   msg, work, vresult, metrics, pipeHist, send, broadcast, hpc, wpc, nextMsg,
                   round, got>>

\* select { case q <- m: default: }: the queue after the statement
OfferBlindly(q, m, cap) == Append(q, m)
Offer(q, m, cap) == IF HasRoom(q, cap) THEN Append(q, m) ELSE q

\* BroadcastMessage: select { case h.broadcast <- data: default: dropped }, with
\* data the JSON of a message of the callers (structs of strings, numbers and
\* times)
BroadcastMessage ==
    /\ Running
    /\ hpc.at # "off"
    /\ nextMsg <= MaxBroadcasts
    /\ broadcast' = Offer(broadcast, nextMsg, BroadcastCap)
    /\ nextMsg' = nextMsg + 1
    /\ UNCHANGED <<breakerVars, cancelled, pipeVars, taskVars, clients, send, sendClosed, hpc,
                   cpc, wpc, round, got>>

\* Run: case message := <-h.broadcast: the range over h.clients begins
HubTakeBroadcast ==
    /\ Running
    /\ hpc.at = "h_select"
    /\ Len(broadcast) > 0
    /\ hpc' = [at |-> "h_range", msg |-> Head(broadcast), todo |-> clients]
    /\ broadcast' = Receive(broadcast)
    /\ round' = [msg |-> Head(broadcast), members |-> clients, appended |-> {},
                 evicted |-> {}]
    /\ UNCHANGED <<breakerVars, cancelled, pipeVars, taskVars, clients, send, sendClosed, cpc,
                   wpc, nextMsg, got>>

\* The clients the range still has to visit after client c.
RestAbandoned(todo, c, evicting) == IF evicting THEN {} ELSE todo \ {c}
RestRevisits(todo, c, evicting) == todo
Rest(todo, c, evicting) == todo \ {c}

\* A select with a default case is ready whatever the state of the channel of
\* its send case.
DefaultMissing(q, cap) == HasRoom(q, cap)
DefaultReady(q, cap) == TRUE

\* for client := range h.clients { select { case client.send <- message:
\* default: close(client.send); delete(h.clients, client) } }, for one client
\* (a send on a closed channel would panic)
HubDeliver(c) ==
    /\ Running
    /\ hpc.at = "h_range"
    /\ c \in hpc.todo
    /\ DefaultReady(send[c], SendCap)
    /\ IF sendClosed[c]
          THEN /\ crashed' = TRUE
               /\ UNCHANGED <<send, got, round, sendClosed, clients, hpc>>
          ELSE /\ UNCHANGED crashed
               /\ hpc' = [hpc EXCEPT !.todo = Rest(@, c, ~HasRoom(send[c], SendCap))]
               /\ IF HasRoom(send[c], SendCap)
                     THEN /\ send' = [send EXCEPT ![c] = Append(@, hpc.msg)]
                          /\ got' = [got EXCEPT ![c] = Append(@, hpc.msg)]
                          /\ round' = [round EXCEPT !.appended = @ \cup {c}]
                          /\ UNCHANGED <<sendClosed, clients>>
                     ELSE /\ sendClosed' = [sendClosed EXCEPT ![c] = TRUE]
                          /\ clients' = clients \ {c}
                          /\ round' = [round EXCEPT !.evicted = @ \cup {c}]
                          /\ UNCHANGED <<send, got>>
    /\ UNCHANGED <<breakerVars, cancelled, taskVars, liquidityClient, fetched, chanVars, ppc,
                   msg, work, vresult, metrics, pipeHist, broadcast, cpc, wpc, nextMsg>>

\* The range is over: back to the select
HubRangeDone ==
    /\ Running
    /\ hpc.at = "h_range"
    /\ hpc.todo = {}
    /\ HGoto("h_select")
    /\ UNCHANGED <<breakerVars, cancelled, pipeVars, taskVars, clients, send, sendClosed,
                   broadcast, cpc, wpc, nextMsg, round, got>>

\* writePump: case message, ok := <-c.send with ok; c.conn.WriteMessage succeeds
\* or fails, and on a failure the pump returns
WritePumpReceive(c) ==
    /\ Running
    /\ wpc[c] = "run"
    /\ Len(send[c]) > 0
    /\ send' = [send EXCEPT ![c] = Receive(@)]
    /\ \E written \in BOOLEAN : wpc' = [wpc EXCEPT ![c] = IF written THEN "run" ELSE "exit"]
    /\ UNCHANGED <<breakerVars, cancelled, pipeVars, taskVars, clients, sendClosed, broadcast,
                   hpc, cpc, nextMsg, round, got>>

\* writePump: case message, ok := <-c.send with !ok: the close message, return
WritePumpClosed(c) ==
    /\ Running
    /\ wpc[c] = "run"
    /\ sendClosed[c]
    /\ Len(send[c]) = 0
    /\ wpc' = [wpc EXCEPT ![c] = "exit"]
    /\ UNCHANGED <<breakerVars, cancelled, pipeVars, taskVars, clients, send, sendClosed,
                   broadcast, hpc, cpc, nextMsg, round, got>>

HubStep ==
    \/ HubTakeBroadcast \/ HubRangeDone
    \/ \E c \in Clients : HubRegister(c) \/ HubUnregister(c) \/ HubDeliver(c)

ClientStep(c) ==
    \/ Connect(c) \/ SendStatus(c) \/ ReadPumpEnds(c)
    \/ WritePumpReceive(c) \/ WritePumpClosed(c)

\* StartWebSocketServer: the hub runs and waits at its select. The hub and the
\* connections never look at the liquidity client.
InitHub ==
    /\ BreakerInit(FALSE)
    /\ PipeInit("nil", Started)
    /\ TaskInit(TasksStarted)
    /\ HubInit("h_select")

NextHub ==
    \/ HubStep
    \/ \E c \in Clients : ClientStep(c)
    \/ BroadcastMessage

SpecHub == InitHub /\ [][NextHub]_vars

\* go wsHub.Run(): the scheduler runs the hub goroutine whenever it can take a
\* step. Nothing is assumed of the connections: a handler may stay where it is,
\* a writePump may never run.
FairHub == WF_vars(HubStep)

SpecHubFair == InitHub /\ [][NextHub]_vars /\ FairHub

\* ================================================================== claims

Idle == \A w \in Workers : pc[w] = "idle"

\* ------------------------------------------------------------------- C1

\* C1, as stated: under recordSuccess/recordFailure calls made one at a time on a
\* breaker that starts Closed, the breaker is never Open while the number of
\* failures since the last success is below maxFailures.
C1_NeverOpenBelowThreshold == state = StateOpen => consec >= MaxFailures

\* C1, amended: the breaker goes Closed->Open exactly at the recordFailure call
\* that brings the number of failures since the last success (or construction)
\* to maxFailures: it stays Closed between calls only while that number is below
\* maxFailures, it never becomes Open at a call that leaves the number below
\* maxFailures, and once Open it stays Open whatever is recorded afterwards.
C1_OpensExactlyAtThreshold ==
    /\ [](state = StateClosed /\ Idle => consec < MaxFailures)
    /\ [][state = StateClosed /\ state' = StateOpen
            => consec = MaxFailures /\ \E w \in Workers : pc[w] = "rf_switch"]_vars
    /\ [][state = StateOpen => state' = StateOpen]_vars

\* A recordFailure call has just opened the breaker: it was the maxFailures-th
\* failure in a row, recorded after the clock had advanced.
C1_Witness ==
    /\ pc["w1"] = "rf_done"
    /\ state = StateOpen
    /\ consec = MaxFailures
    /\ failures = MaxFailures
    /\ now > StartTime

\* ------------------------------------------------------------------- C2

\* The events of the running Call / RetryWithBackoff that invoke the operation.
Invocations(w) == Cardinality({i \in 1..Len(trace[w]) : trace[w][i][1] = "fn"})

\* C2: with one caller, canExecute on an Open breaker returns false whenever no
\* more than resetTimeout has elapsed since the last recorded failure, and Call
\* and RetryWithBackoff then return without invoking the operation; once more
\* than resetTimeout has elapsed it goes on to the Open->HalfOpen swap, returns
\* true and leaves the breaker HalfOpen.
C2_OpenDeniesUntilTimeout ==
    /\ [][\A w \in Workers : pc[w] = "ce_check" /\ pc'[w] # "ce_check" =>
            IF now - lastFailureTime <= ResetTimeout
               THEN pc'[w] = "ce_done" /\ ret'[w] = FALSE /\ state' = StateOpen
               ELSE pc'[w] = "ce_cas"]_vars
    /\ [](\A w \in Workers : pc[w] = "ce_done" /\ st[w] = StateOpen =>
            /\ ret[w] = TRUE => state = StateHalfOpen
            /\ ret[w] = FALSE => state = StateOpen)
    /\ [][\A w \in Workers :
            pc[w] = "ce_done" /\ ret[w] = FALSE /\ caller[w] \in {"Call", "Retry"}
            /\ pc'[w] # "ce_done"
            => /\ pc'[w] = "idle"
               /\ Invocations(w)' = Invocations(w)
               /\ result'[w] \in {<<"ErrCircuitOpen">>, <<"circuit breaker open", "ErrCircuitOpen">>}]_vars

\* RetryWithBackoff's canExecute has just denied an attempt on an Open breaker
\* exactly resetTimeout after the last recorded failure.
C2_Witness ==
    /\ pc["w1"] = "ce_done"
    /\ caller["w1"] = "Retry"
    /\ st["w1"] = StateOpen
    /\ ret["w1"] = FALSE
    /\ now - lastFailureTime = ResetTimeout

\* ------------------------------------------------------------------- C3

C4_ReopenClearsProbeCounter ==
    \A w \in Workers : pc[w] = "rf_done" /\ st[w] = StateHalfOpen =>
        state = StateOpen /\ halfOpenSuccesses = 0

\* ------------------------------------------------------------------- C5

\* C5: with one caller, a recordSuccess in HalfOpen adds one to the probe-success
\* counter; the breaker stays HalfOpen while the counter is below
\* halfOpenSuccess, and the success that reaches halfOpenSuccess leaves it
\* Closed with the failure counter and the probe-success counter both 0.
C5_HalfOpenSuccessCounting ==
    /\ [][\A w \in Workers : pc[w] = "rs_add" /\ pc'[w] # "rs_add" =>
            halfOpenSuccesses' = halfOpenSuccesses + 1 /\ state' = state]_vars
    /\ [](\A w \in Workers : pc[w] = "rs_done" /\ st[w] = StateHalfOpen =>
            IF sc[w] < HalfOpenSuccess
               THEN state = StateHalfOpen /\ halfOpenSuccesses = sc[w]
               ELSE state = StateClosed /\ failures = 0 /\ halfOpenSuccesses = 0)

\* The recordSuccess that reached halfOpenSuccess has closed the breaker.
C5_Witness ==
    /\ pc["w1"] = "rs_done"
    /\ st["w1"] = StateHalfOpen
    /\ sc["w1"] = HalfOpenSuccess
    /\ state = StateClosed

\* ------------------------------------------------------------------- C6

Edges ==
    { <<StateClosed, StateOpen>>, <<StateOpen, StateHalfOpen>>,
      <<StateHalfOpen, StateOpen>>, <<StateHalfOpen, StateClosed>> }

\* C6: under any interleaving of canExecute, recordSuccess and recordFailure,
\* every change of the state is Closed->Open, Open->HalfOpen, HalfOpen->Open or
\* HalfOpen->Closed (never Closed->HalfOpen, never Open->Closed).
C6_OnlyDefinedEdges == [][state' # state => <<state, state'>> \in Edges]_vars

\* A recordSuccess that read HalfOpen and reached halfOpenSuccess found the
\* breaker reopened by another worker: its swap failed and the state is still Open.
C6_Witness ==
    \E w \in Workers :
        /\ pc[w] = "rs_done"
        /\ st[w] = StateHalfOpen
        /\ sc[w] >= HalfOpenSuccess
        /\ state = StateOpen

\* ------------------------------------------------------------------- C7

\* C7: under any interleaving of recordSuccess and recordFailure by several
\* workers, at the moment the state changes Closed->Open the failure counter is
\* at least maxFailures.
C7_OpensWithCounterAtThreshold ==
    [][state = StateClosed /\ state' = StateOpen => failures >= MaxFailures]_vars

\* ------------------------------------------------------------------- C8

\* C8: in every reachable state the consecutive-failure counter and the
\* probe-success counter are never both non-zero.
C8_CountersExclusive == ~(failures # 0 /\ halfOpenSuccesses # 0)

\* ------------------------------------------------------------------- C9

CanExecutePcs == {"ce_load", "ce_time", "ce_check", "ce_cas", "ce_store"}

\* C9: under any interleaving, a step of canExecute never changes the failure
\* counter or the last-failure timestamp; a call that reads Closed or HalfOpen,
\* or reads Open and finds the timeout not elapsed, changes nothing at all; the
\* only state change is Open->HalfOpen, and the only other write is the reset
\* of the probe-success counter to 0 by the caller that made that change.
C9_CanExecuteFrame ==
    [][\A w \in Workers : pc[w] \in CanExecutePcs /\ pc'[w] # pc[w] =>
        /\ failures' = failures
        /\ lastFailureTime' = lastFailureTime
        /\ state' = state \/ (state = StateOpen /\ state' = StateHalfOpen)
        /\ halfOpenSuccesses' = halfOpenSuccesses
            \/ (halfOpenSuccesses' = 0 /\ pc[w] = "ce_store")
        /\ pc[w] \in {"ce_load", "ce_time", "ce_check"} =>
            <<state, halfOpenSuccesses>>' = <<state, halfOpenSuccesses>>]_vars

\* A canExecute has flipped the breaker to HalfOpen and reset the probe-success
\* counter, and the failure counter and the timestamp still hold what the
\* failures that opened the breaker left.
C9_Witness ==
    \E w \in Workers :
        /\ pc[w] = "ce_done"
        /\ w \in winners
        /\ state = StateHalfOpen
        /\ halfOpenSuccesses = 0
        /\ failures >= MaxFailures
        /\ lastFailureTime > 0

\* ------------------------------------------------------------------ C10

Waits(w) == Cardinality({i \in 1..Len(trace[w]) : trace[w][i][1] = "wait"})

\* The last event of the call that is an invocation or a wait is an invocation.
NoWaitAfterLastAttempt(w) ==
    \A i \in 1..Len(trace[w]) : trace[w][i][1] = "wait" =>
        \E j \in (i + 1)..Len(trace[w]) : trace[w][j][1] = "fn"

\* RetryWithBackoff has returned, every invocation failed, the breaker denied
\* nothing and the call was not cancelled.
AllAttemptsFailed(w) ==
    /\ pc[w] = "idle"
    /\ config[w].MaxAttempts > 0
    /\ result[w][1] \notin {"none", "retry cancelled"}
    /\ \A i \in 1..Len(trace[w]) :
        /\ trace[w][i][1] = "fn" => trace[w][i][2] # "nil"
        /\ trace[w][i][1] = "canExecute" => trace[w][i][2] = TRUE

\* C10: RetryWithBackoff (MaxAttempts >= 1) never invokes the operation more
\* than MaxAttempts times; when every invocation fails, the breaker denies
\* nothing and the call is not cancelled, it invokes it exactly MaxAttempts
\* times and waits exactly MaxAttempts-1 times, never after the last attempt.
C10_AttemptBudget ==
    \A w \in Workers : config[w].MaxAttempts > 0 =>
        /\ Invocations(w) <= config[w].MaxAttempts
        /\ AllAttemptsFailed(w) =>
            /\ Invocations(w) = config[w].MaxAttempts
            /\ Waits(w) = config[w].MaxAttempts - 1
            /\ NoWaitAfterLastAttempt(w)

\* A RetryWithBackoff bound to the breaker has used up the largest attempt
\* budget: every invocation failed and no attempt was denied.
C10_Witness ==
    /\ AllAttemptsFailed("w1")
    /\ config["w1"].MaxAttempts = MaxAttemptsBound
    /\ config["w1"].CircuitBreaker
    /\ result["w1"][1] = "max retries exceeded"

\* ------------------------------------------------------------------ C11

Min(a, b) == IF a <= b THEN a ELSE b

\* The waits the running RetryWithBackoff has sat out, and its invocations.
WaitEvents(w) == SelectSeq(trace[w], LAMBDA e : e[1] = "wait")
FnEvents(w) == SelectSeq(trace[w], LAMBDA e : e[1] = "fn")

\* C11: the first wait of a RetryWithBackoff call lasts InitialDelay and every
\* later wait lasts min(previous wait * Multiplier, MaxDelay); this holds for
\* the waits already sat out and for the wait in progress.
C11_BackoffRule ==
    \A w \in Workers :
        LET W == WaitEvents(w)
            Rule(k, d) == d = IF k = 1 THEN config[w].InitialDelay
                                       ELSE Min(W[k - 1][2] * Multiplier, MaxDelay)
        IN /\ \A k \in 1..Len(W) : Rule(k, W[k][2])
           /\ pc[w] = "rb_wait" => Rule(Len(W) + 1, delay[w])

\* Two waits were sat out and the second was cut down to MaxDelay.
C11_Witness ==
    LET W == WaitEvents("w1")
    IN /\ Len(W) = 2
       /\ W[1][2] * Multiplier > MaxDelay
       /\ W[1][2] < MaxDelay
       /\ W[2][2] = MaxDelay

\* ------------------------------------------------------------------ C12

\* C12: when a breaker is bound and canExecute denies an attempt,
\* RetryWithBackoff returns the error wrapping ErrCircuitOpen at its next step,
\* without invoking the operation; the denial is the last thing the call does
\* (no later breaker check, invocation or wait).
C12_DenialEndsCall ==
    /\ [][\A w \in Workers :
            pc[w] = "ce_done" /\ caller[w] = "Retry" /\ ~ret[w] /\ pc'[w] # pc[w]
            => /\ pc'[w] = "idle"
               /\ result'[w] = <<"circuit breaker open", "ErrCircuitOpen">>
               /\ FnEvents(w)' = FnEvents(w)]_vars
    /\ [](\A w \in Workers : config[w].MaxAttempts > 0 =>
            \A i \in 1..Len(trace[w]) :
                trace[w][i][1] = "canExecute" /\ ~trace[w][i][2]
                => /\ i = Len(trace[w])
                   /\ pc[w] = "idle"
                   /\ result[w][1] = "circuit breaker open")

\* With MaxAttempts = 1 the only attempt was denied: the call returned the
\* open-circuit error and never invoked the operation.
C12_Witness ==
    /\ pc["w1"] = "idle"
    /\ config["w1"].MaxAttempts = 1
    /\ config["w1"].CircuitBreaker
    /\ result["w1"] = <<"circuit breaker open", "ErrCircuitOpen">>
    /\ Len(FnEvents("w1")) = 0

\* ------------------------------------------------------------------ C13

\* C13: the open-circuit failure is returned with no wait between the denial
\* and the return: the returning step sits out no delay, and every wait of such
\* a call followed a failed invocation (as many waits as invocations, none for
\* the denied attempt).
C13_DenialReturnsWithoutWaiting ==
    /\ [][\A w \in Workers :
            pc[w] = "ce_done" /\ caller[w] = "Retry" /\ ~ret[w] /\ pc'[w] # pc[w]
            => WaitEvents(w)' = WaitEvents(w) /\ pc'[w] # "rb_wait"]_vars
    /\ [](\A w \in Workers :
            config[w].MaxAttempts > 0 /\ result[w][1] = "circuit breaker open"
            => /\ Len(WaitEvents(w)) = Len(FnEvents(w))
               /\ trace[w][Len(trace[w])][1] = "canExecute")

\* An attempt was denied after an earlier one had failed and its backoff had
\* been sat out.
C13_Witness ==
    /\ pc["w1"] = "idle"
    /\ result["w1"][1] = "circuit breaker open"
    /\ Len(FnEvents("w1")) = 2
    /\ Len(WaitEvents("w1")) = 2

\* ------------------------------------------------------------------ C14

RecordSuccessPcs ==
    {"rs_load", "rs_reset", "rs_add", "rs_cas", "rs_clear1", "rs_clear2", "rs_done"}

\* C14: in a RetryWithBackoff call at most one invocation succeeds; after it
\* the call does nothing but one recordSuccess on the bound breaker (nothing at
\* all without a breaker) and returns nil; recordSuccess is called only right
\* after a successful invocation; and nil is returned only if an invocation
\* succeeded.
C14_SuccessReturnsAtOnce ==
    \A w \in Workers : config[w].MaxAttempts > 0 =>
        LET T == trace[w]
            S == {i \in 1..Len(T) : T[i][1] = "fn" /\ T[i][2] = "nil"}
        IN /\ Cardinality(S) <= 1
           /\ \A i \in S :
                /\ \A j \in (i + 1)..Len(T) :
                    j = i + 1 /\ T[j][1] = "recordSuccess" /\ config[w].CircuitBreaker
                /\ pc[w] = "idle" =>
                    /\ result[w] = <<"nil">>
                    /\ Len(T) = IF config[w].CircuitBreaker THEN i + 1 ELSE i
                /\ pc[w] # "idle" =>
                    config[w].CircuitBreaker /\ Len(T) = i /\ pc[w] \in RecordSuccessPcs
           /\ \A j \in 1..Len(T) : T[j][1] = "recordSuccess" => j - 1 \in S
           /\ pc[w] \in RecordSuccessPcs => Len(T) \in S
           /\ result[w] = <<"nil">> => S # {}

\* The second invocation succeeded after one failure and one wait: the call
\* recorded the success on the bound breaker and returned nil.
C14_Witness ==
    /\ pc["w1"] = "idle"
    /\ config["w1"].CircuitBreaker
    /\ result["w1"] = <<"nil">>
    /\ Len(FnEvents("w1")) = 2
    /\ Len(WaitEvents("w1")) = 1
    /\ trace["w1"][Len(trace["w1"])][1] = "recordSuccess"

\* ------------------------------------------------------------------ C15

\* C15: when the context is cancelled while RetryWithBackoff is at its wait,
\* its next step returns the cancellation error: the wait is not sat out and
\* the operation is not invoked again (the call's history ends with the failed
\* invocation the wait followed).
C15_CancelEndsWait ==
    /\ [][\A w \in Workers :
            pc[w] = "rb_wait" /\ cancelled /\ pc'[w] # pc[w]
            => /\ pc'[w] = "idle"
               /\ result'[w] = <<"retry cancelled", "ctx.Err">>
               /\ trace'[w] = trace[w]]_vars
    /\ [](\A w \in Workers : result[w][1] = "retry cancelled" =>
            /\ cancelled
            /\ Len(WaitEvents(w)) = Len(FnEvents(w)) - 1
            /\ trace[w][Len(trace[w])][1] \in {"fn", "recordFailure"})

\* The context was cancelled during the second wait of a call: one wait was
\* sat out, two invocations failed, and the call returned the cancellation error.
C15_Witness ==
    /\ pc["w1"] = "idle"
    /\ result["w1"] = <<"retry cancelled", "ctx.Err">>
    /\ Len(FnEvents("w1")) = 2
    /\ Len(WaitEvents("w1")) = 1

\* ------------------------------------------------------------------ C16

\* C16: when all MaxAttempts invocations fail, with no denial and no
\* cancellation, RetryWithBackoff returns the max-retries error (not nil)
\* wrapping the error returned by the last invocation.
C16_WrapsLastError ==
    \A w \in Workers : AllAttemptsFailed(w) =>
        LET F == FnEvents(w)
        IN /\ Len(F) = config[w].MaxAttempts
           /\ result[w] = <<"max retries exceeded", F[Len(F)][2]>>

\* Three invocations failed and the last error differs from the earlier ones.
C16_Witness ==
    LET F == FnEvents("w1")
    IN /\ AllAttemptsFailed("w1")
       /\ Len(F) = 3
       /\ F[1][2] = "errA"
       /\ F[2][2] = "errA"
       /\ F[3][2] = "errB"
       /\ result["w1"] = <<"max retries exceeded", "errB">>

\* ------------------------------------------------------------------ C17

\* The order in which a call invoked the operation and waited.
Kinds(w) ==
    LET P == SelectSeq(trace[w], LAMBDA e : e[1] \in {"fn", "wait"})
    IN [i \in 1..Len(P) |-> P[i][1]]

\* Both calls of a pair have returned, the bound breaker allowed every attempt,
\* and the operation answered the two calls alike as far as both asked.
SameOutcomes(w, v) ==
    /\ pc[w] = "idle" /\ pc[v] = "idle"
    /\ result[w] # <<"none">> /\ result[v] # <<"none">>
    /\ config[w].CircuitBreaker /\ ~config[v].CircuitBreaker
    /\ config[v] = [config[w] EXCEPT !.CircuitBreaker = FALSE]
    /\ \A i \in 1..Len(trace[w]) : trace[w][i][1] = "canExecute" => trace[w][i][2]
    /\ \A i \in 1..Min(Len(FnEvents(w)), Len(FnEvents(v))) :
        FnEvents(w)[i] = FnEvents(v)[i]

BreakerPcs == CanExecutePcs \cup RecordSuccessPcs \cup
              {"ce_done", "rf_load", "rf_add", "rf_time", "rf_switch", "rf_reset", "rf_done"}

\* C17: a RetryWithBackoff call with CircuitBreaker = nil makes the same
\* invocations and waits, in the same order and of the same lengths, and
\* returns the same result as the call with a bound breaker that allowed every
\* attempt, whenever the operation answers both alike; and no step of the
\* nil-breaker call enters a breaker method or changes the breaker's fields.
C17_NilBreakerEquivalent ==
    /\ [](SameOutcomes("w1", "w2") =>
            /\ Kinds("w1") = Kinds("w2")
            /\ FnEvents("w1") = FnEvents("w2")
            /\ WaitEvents("w1") = WaitEvents("w2")
            /\ result["w1"] = result["w2"])
    /\ [][\A w \in Workers :
            caller[w] = "Retry" /\ ~config[w].CircuitBreaker /\ pc'[w] # pc[w]
            => /\ pc'[w] \notin BreakerPcs
               /\ <<state, failures, lastFailureTime, halfOpenSuccesses>>' =
                  <<state, failures, lastFailureTime, halfOpenSuccesses>>]_vars
    /\ [](\A w \in Workers : config[w].MaxAttempts > 0 /\ ~config[w].CircuitBreaker =>
            \A i \in 1..Len(trace[w]) : trace[w][i][1] \in {"fn", "wait"})

\* Both calls failed three times with the same errors and sat out the same two
\* waits; the bound breaker opened during the first call and let the third
\* attempt through as a probe.
C17_Witness ==
    /\ SameOutcomes("w1", "w2")
    /\ Len(FnEvents("w2")) = 3
    /\ Len(WaitEvents("w2")) = 2
    /\ result["w2"][1] = "max retries exceeded"
    /\ state = StateOpen

\* ------------------------------------------------------------------ C18

\* The messages whose number i has been read.
Read == 1..Len(fetched)

\* No goroutine has anything in hand or in the queue: the reader awaits the next
\* message and every worker awaits the next item.
Quiet ==
    /\ ppc["reader"] \in {"r_select", "r_read"}
    /\ Len(workChan) = 0
    /\ \A p \in PoolWorkers : ppc[p] = "w_select"

\* Every message read so far is well-formed and the dependency check denied none.
AllGoodAndApproved ==
    \A i \in Read : fetched[i] = GoodDoc /\ liq[i] # "denied"

\* C18: without cancellation, no message is received from the queue twice, no
\* two workers hold the same item, an item in a worker's hands is no longer in
\* the queue, and no message gets more than one result; and when every message
\* read is well-formed and the dependency check denies none, then once the
\* workers have nothing left to do every message read has exactly one result on
\* the results channel, an accepted one.
C18_EachItemOnceAllAccepted ==
    ~cancelled =>
        /\ \A i \in Ids : taken[i] <= 1 /\ Len(delivered[i]) <= 1
        /\ \A p, q \in PoolWorkers : p # q /\ work[p] # NoItem => work[p].id # work[q].id
        /\ \A p \in PoolWorkers : \A k \in 1..Len(workChan) : workChan[k].id # work[p].id
        /\ \A k, l \in 1..Len(workChan) : k # l => workChan[k].id # workChan[l].id
        /\ Quiet /\ AllGoodAndApproved =>
            \A i \in Read :
                /\ taken[i] = 1
                /\ Len(delivered[i]) = 1
                /\ delivered[i][1].id = i
                /\ delivered[i][1].Valid

\* Both messages were well-formed, the liquidity service approved both, and
\* each has its accepted result; nothing was cancelled.
C18_Witness ==
    /\ ~cancelled
    /\ Quiet
    /\ Len(fetched) = NumMessages
    /\ \A i \in Read : fetched[i] = GoodDoc /\ liq[i] = "debited_credited"
    /\ \A i \in Read : Len(delivered[i]) = 1 /\ delivered[i][1].Valid

\* ------------------------------------------------------------------ C19

\* Some worker has message i in hand.
Held(i) == \E p \in PoolWorkers : work[p].id = i

\* C19: every item a worker has received and finished with has exactly one
\* result delivered to the results channel, also when the shutdown signal
\* fired while the item was being processed.
C19_EveryDequeuedItemDelivered ==
    \A i \in Ids : taken[i] > 0 /\ ~Held(i) => Len(delivered[i]) = 1

\* ------------------------------------------------------------------ C20

\* C20: the workers exit only once the work queue is empty, so that when all
\* of them have exited no queued item is left unprocessed.
C20_WorkersDrainQueue ==
    (\A p \in PoolWorkers : ppc[p] = "w_exit") => Len(workChan) = 0

\* ------------------------------------------------------------------ C21

\* C21: main is past the join exactly when it has closed the results channel,
\* and the results channel is closed only when every worker has exited with
\* nothing in hand; so no worker is at its send of a result, or anywhere else
\* in its loop, once the channel is closed.
C21_JoinAfterWorkers ==
    /\ resultsClosed <=> ppc["main"] \in {"m_report", "m_done"}
    /\ resultsClosed =>
        \A p \in PoolWorkers : ppc[p] = "w_exit" /\ work[p] = NoItem /\ vresult[p] = NoResult

\* Main has closed the results channel after a shutdown in which one worker sent
\* its result and another gave its result up at the send.
C21_Witness ==
    /\ resultsClosed
    /\ ~crashed
    /\ \E i \in Ids : Len(delivered[i]) = 1
    /\ \E i \in Ids : taken[i] = 1 /\ delivered[i] = <<>>

\* ------------------------------------------------------------------ C22

\* Message i has been placed on the work queue: it is there or a worker took it.
Placed(i) == taken[i] > 0 \/ \E k \in 1..Len(workChan) : workChan[k].id = i

\* The reader has message i in hand, on its way to the queue.
InHand(i) == ppc["reader"] = "r_send" /\ msg.id = i

\* C22: the work queue never holds more than WorkChanCap items; as long as the
\* shutdown signal has not fired, every message counted as consumed is in the
\* reader's hand or has been placed on the queue, never discarded, and the
\* count of consumed messages is the number of messages read; and every
\* message consumed is eventually placed on the queue unless the signal fires.
C22_BoundedQueueBackPressure ==
    /\ [](Len(workChan) <= WorkChanCap)
    /\ [](~cancelled =>
            /\ metrics.MessagesConsumed = Len(fetched)
            /\ \A i \in Read : InHand(i) \/ Placed(i))
    /\ \A i \in Ids : (Len(fetched) >= i) ~> (Placed(i) \/ cancelled)

\* The reader holds the second message while the queue is full with the first
\* and no shutdown is under way: it has to wait for a worker.
C22_Witness ==
    /\ ~cancelled
    /\ InHand(NumMessages)
    /\ Len(workChan) = WorkChanCap
    /\ metrics.MessagesConsumed = NumMessages

\* ------------------------------------------------------------------ C23

\* The reader and every worker have exited and main is past its join. Main does
\* not join the reader: the reader has also gone when main has returned, which
\* ends the process.
PipelineStopped ==
    /\ ppc["reader"] = "r_exit" \/ ppc["main"] = "m_done"
    /\ \A p \in PoolWorkers : ppc[p] = "w_exit"
    /\ ppc["main"] \in {"m_report", "m_done"}

\* C23: once the shutdown signal has fired, the reader and every worker
\* eventually exit and main's join completes.
C23_ShutdownTerminates == cancelled ~> PipelineStopped

\* Whenever the shutdown does not end that way, it is because the process
\* has panicked.
ShutdownTerminatesOrPanics == cancelled ~> (PipelineStopped \/ crashed)

\* ------------------------------------------------------------------ C24

\* The worker holding message i has its result ready to send.
Ready(i) == \E p \in PoolWorkers : work[p].id = i /\ ppc[p] = "w_send"

\* The result of message i: the one its worker is about to send, or the one sent.
ResultOf(i) ==
    IF Len(delivered[i]) > 0 THEN delivered[i][1]
    ELSE vresult[CHOOSE p \in PoolWorkers : work[p].id = i]

\* Message i has its result: the worker holds it ready or has sent it.
Decided(i) == Ready(i) \/ Len(delivered[i]) > 0

\* C24: once the liquidity service has denied a message, the worker has its
\* result, which is rejected and carries the code of the denial; the message
\* was counted in MessagesInvalid once and in MessagesValid never, and
\* validateTransaction was not run on it.
C24_DenialRejectsWithoutValidation ==
    \A i \in Ids : liq[i] = "denied" =>
        /\ Decided(i)
        /\ Len(delivered[i]) <= 1
        /\ ~ResultOf(i).Valid
        /\ audit[i].denial \in DenialCodes
        /\ ResultOf(i).ErrorCode = audit[i].denial
        /\ audit[i].invalid = 1
        /\ audit[i].valid = 0
        /\ audit[i].validated = 0
        /\ metrics.MessagesInvalid = 1
        /\ metrics.MessagesValid = 0

\* A well-formed message was denied with AC04 and its result has been sent.
C24_Witness ==
    /\ fetched[1] = GoodDoc
    /\ liq[1] = "denied"
    /\ Len(delivered[1]) = 1
    /\ delivered[1][1].ErrorCode = "AC04"

\* ------------------------------------------------------------------ C25

\* The dependency check of message i ran without a service answer: there is no
\* liquidity client, or the call to the service failed.
FailOpenMode(i) ==
    \/ liquidityClient = "nil" /\ liq[i] # "none"
    \/ liq[i] = "call_failed"

\* C25: when the liquidity client is absent or the call fails, a message's
\* result is rejected only if validateTransaction rejects the message.
C25_FailOpenRejectsOnlyOnValidation ==
    \A i \in Ids : FailOpenMode(i) /\ Decided(i) /\ ~ResultOf(i).Valid =>
        ~validateTransaction(i, fetched[i]).Valid

\* ------------------------------------------------------------------ C26

\* C26: a dependency call that has failed has been recorded on the breaker:
\* the failure counter is positive or the breaker has left Closed.
C26_FailedCallReachesBreaker ==
    \A i \in Ids : liq[i] = "call_failed" => failures > 0 \/ state # StateClosed

\* ------------------------------------------------------------------ C27

\* C27: a message whose result the worker has determined has been offered to
\* the hub exactly once, and a message without a result never.
C27_OneEventPerItem ==
    \A i \in Ids : offered[i] = IF Decided(i) THEN 1 ELSE 0

\* ------------------------------------------------------------------ C28

\* The rules of validateTransaction on the header and on the first transaction's
\* agents, in the order in which they are evaluated: whether the rule fails, and
\* its code.
HeaderRules(doc) ==
    LET txs == doc.CdtTrfTxInf
        n == Len(txs)
    IN << <<doc.MsgId = "", "MISSING_MSG_ID">>,
          <<doc.NbOfTxs < 1, "INVALID_TX_COUNT">>,
          <<doc.SttlmMtd \notin {"CLRG", "INDA", "INGA", "COVE"}, "INVALID_STTLM_MTD">>,
          <<n = 0, "NO_TRANSACTIONS">>,
          <<n > 0 /\ Len(txs[1].DbtrBIC) \notin 8..11, "INVALID_DBTR_BIC">>,
          <<n > 0 /\ Len(txs[1].CdtrBIC) \notin 8..11, "INVALID_CDTR_BIC">> >>

\* The five rules on the k-th transaction (counted from 0), in order.
TxRules(tx, k) ==
    << <<tx.InstrId = "", "MISSING_PMT_ID_TX" \o ToString(k)>>,
       <<tx.Ccy = "", "MISSING_CURRENCY_TX" \o ToString(k)>>,
       <<tx.Value = "", "MISSING_AMOUNT_TX" \o ToString(k)>>,
       <<tx.IntrBkSttlmDt = "", "MISSING_STTLM_DT_TX" \o ToString(k)>>,
       <<tx.ChrgBr \notin {"DEBT", "CRED", "SHAR", "SLEV"}, "INVALID_CHRG_BR_TX" \o ToString(k)>> >>

\* All rules in evaluation order, and those of them that fail.
AllRules(doc) ==
    HeaderRules(doc) \o
    [n \in 1..(5 * Len(doc.CdtTrfTxInf)) |->
        TxRules(doc.CdtTrfTxInf[((n - 1) \div 5) + 1], (n - 1) \div 5)[((n - 1) % 5) + 1]]
FailedRules(doc) == SelectSeq(AllRules(doc), LAMBDA r : r[1])

\* Result r is what the rules say of doc: rejected exactly if some rule fails,
\* with the code of the last rule that fails, in evaluation order, or with no
\* code if none fails, and with the message's MsgId.
AsTheRulesSay(r, doc) ==
    LET failed == FailedRules(doc)
    IN /\ r.Valid <=> failed = <<>>
       /\ r.ErrorCode = IF failed = <<>> THEN "" ELSE failed[Len(failed)][2]
       /\ r.MsgId = doc.MsgId

\* C28: on every message that parses, validateTransaction's result is rejected
\* exactly if some rule fails, and its ErrorCode is the code of the last rule
\* that fails, in evaluation order, or empty if none fails; and that is the
\* result the worker has whenever it has run validateTransaction.
C28_AllRulesLastFailureReported ==
    \A i \in Read : fetched[i].parses =>
        /\ AsTheRulesSay(validateTransaction(i, fetched[i]), fetched[i])
        /\ audit[i].validated > 0 =>
              Decided(i) /\ ResultOf(i).id = i /\ AsTheRulesSay(ResultOf(i), fetched[i])

\* A message that breaks the first rule (no MsgId) and the last (the charge
\* bearer of its only transaction) was validated: the result reports the last.
C28_Witness ==
    /\ fetched[1] = RuleBreakingDoc
    /\ audit[1].validated = 1
    /\ Len(delivered[1]) = 1
    /\ delivered[1][1].ErrorCode = "INVALID_CHRG_BR_TX0"
    /\ Len(FailedRules(fetched[1])) = 2

\* ------------------------------------------------------------------ C29

\* C29: once the shutdown signal has fired, every periodic task stops: it
\* leaves its loop.
C29_TasksStopOnSignal ==
    \A t \in Tasks : cancelled ~> (tpc[t] = "t_exit")

\* The tasks that select on ctx.Done() do stop, and do no tick of work after
\* they have.
ObservingTasksStop ==
    \A t \in Tasks : ObservesCtx(t) => (cancelled ~> [](tpc[t] = "t_exit"))

\* The tasks that do not select on ctx.Done() go on with their ticks of work
\* after the signal.
LateBroadcast == late["metricsCast"] = MaxTaskTicks /\ late["balanceCast"] = MaxTaskTicks

\* ------------------------------------------------------------------ C30

\* The hub has finished the round of its last broadcast message.
RoundOver == hpc.at = "h_select" /\ round.msg # 0

\* C30: of the clients in the set when the hub takes a broadcast message, none
\* is both given the message and evicted, those not yet visited are exactly the
\* rest, and when the round is over every one of them was given the message or
\* evicted; a client given the message has it as the last message the hub put
\* into its buffer; an evicted client is out of the set with its buffer closed;
\* the hub never panics; and in every step of the round the client visited is
\* given the message if its buffer has room and is evicted only if it is full,
\* whatever happened to the clients visited before.
C30_BroadcastReachesEveryMember ==
    /\ [](~crashed)
    /\ [](round.appended \cap round.evicted = {})
    /\ [](hpc.at = "h_range" =>
            /\ hpc.msg = round.msg
            /\ round.members = round.appended \cup round.evicted \cup hpc.todo
            /\ hpc.todo \cap (round.appended \cup round.evicted) = {})
    /\ [](RoundOver => round.members = round.appended \cup round.evicted)
    /\ [](\A c \in round.appended : Len(got[c]) > 0 /\ got[c][Len(got[c])] = round.msg)
    /\ [](\A c \in round.evicted : c \notin clients /\ sendClosed[c])
    /\ [](\A c \in clients : ~sendClosed[c])
    /\ [][\A c \in Clients :
            /\ c \in round'.appended \ round.appended =>
                  Len(send[c]) < SendCap /\ send'[c] = Append(send[c], round.msg)
            /\ c \in round'.evicted \ round.evicted =>
                  Len(send[c]) = SendCap /\ send'[c] = send[c]]_vars

\* A round is over in which one of two clients in the set was evicted and the
\* other given the message.
C30_Witness ==
    /\ RoundOver
    /\ round.members = Clients
    /\ round.evicted # {}
    /\ round.appended # {}

\* ------------------------------------------------------------------ C31

\* A call of BroadcastMessage can be made.
MayBroadcast == Running /\ hpc.at # "off" /\ nextMsg <= MaxBroadcasts

\* C31: BroadcastMessage returns in one step whatever the state of h.broadcast
\* (the call is enabled with a full channel as with an empty one); the call
\* appends its payload once to a channel with room and leaves a full channel as
\* it is; the channel never holds more than its capacity, and the payloads in it
\* are in the order of their calls, none twice.
C31_BroadcastNeverBlocks ==
    /\ [](MayBroadcast => ENABLED BroadcastMessage)
    /\ [](Len(broadcast) <= BroadcastCap)
    /\ [](\A i, j \in 1..Len(broadcast) : i < j => broadcast[i] < broadcast[j])
    /\ [](\A i \in 1..Len(broadcast) : broadcast[i] < nextMsg /\ broadcast[i] # hpc.msg)
    /\ [][nextMsg' # nextMsg =>
            /\ nextMsg' = nextMsg + 1
            /\ broadcast' = IF Len(broadcast) < BroadcastCap
                               THEN broadcast \o <<nextMsg>>
                               ELSE broadcast]_vars

\* BroadcastMessage has returned with its payload dropped: the channel is full
\* of earlier payloads of which the hub has taken none.
C31_Witness ==
    /\ Len(broadcast) = BroadcastCap
    /\ round.msg = 0
    /\ hpc.at = "h_select"
    /\ nextMsg > BroadcastCap + 1

\* ------------------------------------------------------------------ C32

\* C32: the hub's step for an unregistration of c removes c from the set and
\* closes its buffer if c is in the set, and changes neither otherwise; a buffer
\* is closed only in a step that removes its open-buffered owner from the set,
\* and a removal always closes, so no close meets a closed buffer (the hub does
\* not panic) and a closed buffer stays closed; no member of the set has a closed
\* buffer; and a client enters the set only by its one registration, with an
\* open buffer, hence never after its removal.
C32_UnregisterClosesAtMostOnce ==
    /\ [](~crashed)
    /\ [](\A c \in clients : ~sendClosed[c])
    /\ [][\A c \in Clients :
            /\ (cpc[c] = "c_unregister" /\ cpc'[c] = "c_done") =>
                  IF c \in clients
                     THEN /\ clients' = clients \ {c}
                          /\ sendClosed' = [sendClosed EXCEPT ![c] = TRUE]
                     ELSE UNCHANGED <<clients, sendClosed>>
            /\ sendClosed'[c] # sendClosed[c] =>
                  ~sendClosed[c] /\ c \in clients /\ c \notin clients'
            /\ (c \in clients /\ c \notin clients') => sendClosed'[c]
            /\ (c \notin clients /\ c \in clients') =>
                  cpc[c] = "c_register" /\ ~sendClosed[c]]_vars

\* The hub has handled the unregistration of a client that it had evicted in
\* its last round, while the other client is in the set.
C32_Witness ==
    \E c \in Clients :
        /\ cpc[c] = "c_done"
        /\ c \in round.evicted
        /\ clients = Clients \ {c}

\* ------------------------------------------------------------------ C33

\* The hub waits at its select with nothing to receive: no connection has a
\* registration or an unregistration pending, and h.broadcast is empty.
HubIdle ==
    /\ hpc.at = "h_select"
    /\ Len(broadcast) = 0
    /\ \A c \in Clients : cpc[c] \notin {"c_register", "c_unregister"}

\* C33: whatever the connections do, and even if no buffer is ever drained, the
\* hub is again and again at its select with nothing left to receive. As an
\* event stays pending until the hub receives it, this says that every range
\* over the clients ends and that every pending registration, unregistration
\* and accepted payload is processed (the connections and the payloads of a
\* behaviour are finitely many).
C33_HubAlwaysReturnsToSelect == []<>HubIdle

\* The hub is back at its select with every payload processed, after a round
\* that met a client whose full buffer nobody had drained.
C33_Witness ==
    /\ RoundOver
    /\ Len(broadcast) = 0
    /\ nextMsg > MaxBroadcasts
    /\ \E c \in round.evicted : Len(send[c]) = SendCap /\ cpc[c] = "c_read"

\* ------------------------------------------------------------------ C34

\* The broadcast payloads in a buffer, in buffer order.
BroadcastsIn(q) == SelectSeq(q, LAMBDA m : m # StatusMsg)

\* s is the end of t.
IsSuffix(s, t) ==
    /\ Len(s) <= Len(t)
    /\ \A i \in 1..Len(s) : s[i] = t[Len(t) - Len(s) + i]

RecordFailurePcs == {"rf_load", "rf_add", "rf_time", "rf_switch", "rf_reset", "rf_done"}

\* The call of the breaker that has to follow an invocation that returned e.
RecordOf(e) == IF e = "nil" THEN "recordSuccess" ELSE "recordFailure"

\* C35: in the history of a RetryWithBackoff call with a breaker bound, every
\* invocation of the operation comes right after a canExecute that returned
\* true; what comes right after it is the recordSuccess of a successful
\* invocation or the recordFailure of a failed one, and that is not followed by
\* another record; while nothing follows the invocation yet, the call is inside
\* that record method (it has neither returned nor reached the next check); and
\* no record is made except right after an invocation.
C35_CheckInvokeRecord ==
    \A w \in Workers : (config[w].MaxAttempts > 0 /\ config[w].CircuitBreaker) =>
        LET T == trace[w]
            F == {i \in 1..Len(T) : T[i][1] = "fn"}
            Rec == {"recordSuccess", "recordFailure"}
        IN /\ \A i \in F :
                /\ i > 1 /\ T[i - 1] = <<"canExecute", TRUE>>
                /\ i < Len(T) => T[i + 1] = <<RecordOf(T[i][2])>>
                /\ i + 2 <= Len(T) => T[i + 2][1] \notin Rec
                /\ i = Len(T) =>
                      pc[w] \in (IF T[i][2] = "nil" THEN RecordSuccessPcs ELSE RecordFailurePcs)
           /\ \A j \in 1..Len(T) : T[j][1] \in Rec => j - 1 \in F
           /\ pc[w] = "rb_fn" => Len(T) > 0 /\ T[Len(T)] = <<"canExecute", TRUE>>
           /\ pc[w] \in RecordSuccessPcs \cup RecordFailurePcs => Len(T) \in F

\* A call with a breaker bound has returned after two failed invocations, each
\* allowed by the breaker and recorded as a failure.
C35_Witness ==
    /\ pc["w1"] = "idle"
    /\ config["w1"].CircuitBreaker
    /\ config["w1"].MaxAttempts = 2
    /\ result["w1"][1] = "max retries exceeded"
    /\ Len(FnEvents("w1")) = 2
    /\ Len(SelectSeq(trace["w1"], LAMBDA e : e[1] = "recordFailure")) = 2

\* ------------------------------------------------------------------ C36

\* C36: nothing sends on a closed buffer: the hub's sends and closes never panic,
\* and a connection handler that has registered and is about to send its status
\* message never finds its buffer closed, nor does the send panic.
C36_NoSendOnClosedBuffer ==
    /\ ~crashed
    /\ \A c \in Clients :
          /\ ~(cpc[c] = "c_status" /\ sendClosed[c])
          /\ cpc[c] # "c_panicked"

\* ------------------------------------------------------------------ C37

\* C37: the reader's send on workChan never happens on the closed channel (such
\* a send panics).
C37_NoSendOnClosedQueue == ~(crashed /\ ppc["reader"] = "r_send" /\ workChanClosed)

\* ------------------------------------------------------------------ C38

\* C38: the step that closes the breaker comes after at least halfOpenSuccess
\* recordSuccess calls that read the state as HalfOpen in the current window and
\* added to the counter; and while the breaker is HalfOpen the counter holds all
\* the successes of such calls (none is wiped by the reset in canExecute).
C38_ClosesOnSuccessesOfThisWindow ==
    /\ [][(state = StateHalfOpen /\ state' = StateClosed) =>
            probe.counted >= HalfOpenSuccess]_vars
    /\ [](state = StateHalfOpen => halfOpenSuccesses >= probe.counted)

\* The two halves of C38, one by one.
ClosesOnFreshSuccesses ==
    [][(state = StateHalfOpen /\ state' = StateClosed) => probe.counted >= HalfOpenSuccess]_vars

NoSuccessLost == state = StateHalfOpen => halfOpenSuccesses >= probe.counted

\* ------------------------------------------------------------------ C39

\* C39: an item for which checkLiquidity got the source bank's approval (the
\* service's check-and-debit) and called CreditBank for the destination bank has
\* an accepted result.
C39_CreditOnlyForAccepted ==
    \A i \in Read : (Decided(i) /\ liq[i] = "debited_credited") => ResultOf(i).Valid

\* ------------------------------------------------------------------ C40

\* The sum of f[1], ..., f[n].
RECURSIVE SumTo(_, _)
SumTo(f, n) == IF n = 0 THEN 0 ELSE f[n] + SumTo(f, n - 1)

\* C40: MessagesConsumed counts the messages read, and MessagesValid +
\* MessagesInvalid never exceeds it; the two counters are the sums of what was
\* counted for each message; no message is counted more than once, a message
\* no worker has taken is not counted, and a message that has its result was
\* counted exactly once, in MessagesValid if the result is accepted and in
\* MessagesInvalid if it is rejected.
C40_MetricsAccounting ==
    /\ metrics.MessagesConsumed = Len(fetched)
    /\ metrics.MessagesValid + metrics.MessagesInvalid <= metrics.MessagesConsumed
    /\ metrics.MessagesValid = SumTo([i \in Ids |-> audit[i].valid], NumMessages)
    /\ metrics.MessagesInvalid = SumTo([i \in Ids |-> audit[i].invalid], NumMessages)
    /\ \A i \in Ids :
          /\ audit[i].valid + audit[i].invalid <= 1
          /\ taken[i] = 0 => audit[i].valid + audit[i].invalid = 0
          /\ Decided(i) =>
                /\ audit[i].valid = (IF ResultOf(i).Valid THEN 1 ELSE 0)
                /\ audit[i].invalid = (IF ResultOf(i).Valid THEN 0 ELSE 1)

\* Every message has been read and has its result delivered, one accepted and
\* one rejected, and the counters say so.
C40_Witness ==
    /\ Len(fetched) = NumMessages
    /\ \A i \in Ids : Len(delivered[i]) = 1
    /\ \E i, j \in Ids : delivered[i][1].Valid /\ ~delivered[j][1].Valid
    /\ metrics.MessagesValid > 0
    /\ metrics.MessagesInvalid > 0
    /\ metrics.MessagesValid + metrics.MessagesInvalid = metrics.MessagesConsumed

====
